---- MODULE Spec2Model ----
(***************************************************************************)
(* API gateway (src/api_gateway/src/index.ts): per-upstream circuit        *)
(* breaker, per-scope rate limiting, bearer-token authentication with      *)
(* identity header injection, request ids, error envelopes                 *)
(* (src/api_gateway/src/errors.ts) and reverse proxying, together with the *)
(* token verifiers of the notes service                                    *)
(* (src/notes_service/src/routes/noteRoutes.ts) and of the user service    *)
(* (src/user_service/src/auth/jwt.ts).                                     *)
(*                                                                         *)
(* Node runs every handler to completion on one thread, so each handler    *)
(* (the whole middleware chain of an arriving request, a proxyRes          *)
(* callback, a proxy error callback) is one atomic action.  Date.now() is  *)
(* the variable now; all reads of the clock inside one handler see the     *)
(* same value.                                                             *)
(***************************************************************************)
EXTENDS Integers, Sequences, FiniteSets, TLC

VARIABLES
    scenario,   \* the traffic of this run: the paths, clients and kind of
                \* headers in use, how long the run lasts, how many calls
                \* may be pending, the statuses and errors the upstream
                \* answers with, and the exceptions raised while proxying
    now,        \* Date.now(), in milliseconds
    breaker,    \* upstream -> CircuitBreakerState
    windows,    \* limiter scope -> client key -> [totalHits, resetTime]
    inflight,   \* requests forwarded to an upstream whose outcome is pending
    last,       \* what the most recent handler did (its response / event)
    streak,     \* history: failures recorded per upstream since its last
                \* success, counted up to the threshold
    noteDocs    \* the Note collection of the notes service

vars == <<scenario, now, breaker, windows, inflight, last, streak, noteDocs>>

-----------------------------------------------------------------------------
(* Bounds of the model *)

TickMs == 500        \* the clock advances in steps of TickMs
MaxTicks == 6        \* the clock stops after MaxTicks steps
MaxInflight == 2     \* upstream calls pending at the same time
LimiterTicks == 3    \* the same two bounds for the rate limiter runs
LimiterInflight == 1
AuthTicks == 2       \* and for the authentication runs
AuthInflight == 1
MaxOver == 1         \* requests modelled beyond a window's max

(* Configuration (environment variables, index.ts lines 21-32), at the     *)
(* values the model is run with.                                           *)
circuitBreakerFailureThreshold == 2
circuitBreakerOpenMs == 1000
usersRateLimitWindowMs == 1500
usersRateLimitMaxRequests == 3
notesRateLimitWindowMs == 1500
notesRateLimitMaxRequests == 3
loginRateLimitWindowMs == 1000
loginRateLimitMaxRequests == 2
jwtSecret == "dev-secret-change-me"

NoTime == -1         \* openedAt: null
NoHeader == ""       \* an absent header (getSingleHeaderValue gives '')
NoRequestId == <<>>  \* an absent or empty x-request-id; request ids are
                     \* sequences of characters, so that trimming is computed

Upstreams == {"user_service", "notes_service"}
Scopes == {"login", "users", "notes"}

-----------------------------------------------------------------------------
(* Paths are sequences of characters, so that prefix tests and the         *)
(* router's case-insensitive mount matching are computed, not assumed.     *)

UpperToLower ==
    [U |-> "u", S |-> "s", E |-> "e", R |-> "r", L |-> "l", O |-> "o",
     G |-> "g", I |-> "i", N |-> "n", T |-> "t"]

toLowerCase(c) == IF c \in DOMAIN UpperToLower THEN UpperToLower[c] ELSE c

lowerPath(p) == [i \in 1..Len(p) |-> toLowerCase(p[i])]

P_users == <<"/", "u", "s", "e", "r", "s">>
P_notes == <<"/", "n", "o", "t", "e", "s">>
P_login == <<"/", "l", "o", "g", "i", "n">>
P_users_login == P_users \o P_login

\* String.prototype.startsWith: case-sensitive character prefix.
startsWith(p, prefix) ==
    /\ Len(p) >= Len(prefix)
    /\ SubSeq(p, 1, Len(prefix)) = prefix

\* app.use(mount, ...): Express matches the mount path as a prefix that ends
\* at a "/" or at the end of the path, ignoring letter case (the router's
\* default: case sensitive routing is off).
mountMatches(p, mount) ==
    /\ Len(p) >= Len(mount)
    /\ lowerPath(SubSeq(p, 1, Len(mount))) = mount
    /\ (Len(p) = Len(mount) \/ p[Len(mount) + 1] = "/")

\* req.path inside a mounted middleware: the path with the mount stripped.
mountedPath(p, mount) ==
    LET rest == SubSeq(p, Len(mount) + 1, Len(p))
    IN  IF rest = <<>> THEN <<"/">> ELSE rest

\* The upstream whose circuit check and proxy are mounted on the path.
targetOf(p) ==
    IF mountMatches(p, P_users) THEN "user_service"
    ELSE IF mountMatches(p, P_notes) THEN "notes_service"
    ELSE "none"

-----------------------------------------------------------------------------
(* Circuit breaker, index.ts lines 92-147 *)

createCircuitBreaker(targetService) ==
    [targetService |-> targetService,
     consecutiveFailures |-> 0,
     openedAt |-> NoTime,
     openUntil |-> 0]

isCircuitOpen_offByOne(b, t) == t + TickMs < b.openUntil

isCircuitOpen(b, t) == t < b.openUntil

openCircuit_keepWindow(b, t) ==
    [b EXCEPT !.consecutiveFailures = 0,
              !.openedAt = t,
              !.openUntil = IF b.openUntil > 0 THEN b.openUntil
                            ELSE t + circuitBreakerOpenMs]

openCircuit_keepCounter(b, t) ==
    [b EXCEPT !.openedAt = t,
              !.openUntil = t + circuitBreakerOpenMs]

openCircuit_staleOpenedAt(b, t) ==
    [b EXCEPT !.consecutiveFailures = 0,
              !.openedAt = IF @ # NoTime THEN @ ELSE t,
              !.openUntil = t + circuitBreakerOpenMs]

openCircuit(b, t) ==
    [b EXCEPT !.consecutiveFailures = 0,
              !.openedAt = t,
              !.openUntil = t + circuitBreakerOpenMs]

\* Which branch markCircuitFailure takes (the reason it logs).
failureBranch(b, t) ==
    IF t < b.openUntil THEN "ignored_while_open"
    ELSE IF b.openedAt # NoTime /\ t >= b.openUntil THEN "recovery_probe_failed"
    ELSE IF b.consecutiveFailures + 1 >= circuitBreakerFailureThreshold
         THEN "failure_threshold_reached"
    ELSE "counted"

markCircuitFailure_noProbeReopen(b, t) ==
    IF t < b.openUntil THEN b
    ELSE LET c == [b EXCEPT !.consecutiveFailures = @ + 1]
         IN  IF c.consecutiveFailures >= circuitBreakerFailureThreshold
             THEN openCircuit(c, t)
             ELSE c

markCircuitFailure_lostUpdate(b, t) ==
    IF t < b.openUntil THEN b
    ELSE IF b.openedAt # NoTime /\ t >= b.openUntil THEN openCircuit(b, t)
    ELSE LET c == [b EXCEPT !.consecutiveFailures = 1]
         IN  IF c.consecutiveFailures >= circuitBreakerFailureThreshold
             THEN openCircuit(c, t)
             ELSE c

markCircuitFailure_countsWhileOpen(b, t) ==
    IF t < b.openUntil THEN [b EXCEPT !.consecutiveFailures = @ + 1]
    ELSE IF b.openedAt # NoTime /\ t >= b.openUntil THEN openCircuit(b, t)
    ELSE LET c == [b EXCEPT !.consecutiveFailures = @ + 1]
         IN  IF c.consecutiveFailures >= circuitBreakerFailureThreshold
             THEN openCircuit(c, t)
             ELSE c

markCircuitFailure(b, t) ==
    IF t < b.openUntil THEN b
    ELSE IF b.openedAt # NoTime /\ t >= b.openUntil THEN openCircuit(b, t)
    ELSE LET c == [b EXCEPT !.consecutiveFailures = @ + 1]
         IN  IF c.consecutiveFailures >= circuitBreakerFailureThreshold
             THEN openCircuit(c, t)
             ELSE c

markCircuitSuccess_keepOpenedAt(b) ==
    [b EXCEPT !.consecutiveFailures = 0, !.openUntil = 0]

markCircuitSuccess_keepOpen(b) ==
    IF b.openedAt # NoTime THEN b
    ELSE [b EXCEPT !.consecutiveFailures = 0,
                   !.openedAt = NoTime,
                   !.openUntil = 0]

markCircuitSuccess_keepOpenUntil(b) ==
    [b EXCEPT !.consecutiveFailures = 0,
              !.openedAt = NoTime]

markCircuitSuccess(b) ==
    [b EXCEPT !.consecutiveFailures = 0,
              !.openedAt = NoTime,
              !.openUntil = 0]

\* Math.ceil(ms / 1000) for ms >= 0
ceilSeconds(ms) == (ms + 999) \div 1000

circuitRetryAfter_floor(b, t) ==
    IF b.openUntil - t > 0 THEN (b.openUntil - t) \div 1000 ELSE 0

\* sendCircuitOpenResponse: retryAfterSeconds
circuitRetryAfter(b, t) ==
    LET remainingMs == IF b.openUntil - t > 0 THEN b.openUntil - t ELSE 0
    IN  ceilSeconds(remainingMs)

-----------------------------------------------------------------------------
(* Rate limiters, index.ts lines 194-234.  rateLimit({windowMs, max, skip, *)
(* handler}) keeps, per client key, one fixed window [totalHits,           *)
(* resetTime] in its in-memory store: a request whose window is absent or  *)
(* has resetTime <= now starts a window of windowMs with totalHits = 1,    *)
(* any other request adds one; when totalHits > max the middleware sets    *)
(* Retry-After and calls the handler instead of next().                    *)

limiterWindowMs(scope) ==
    CASE scope = "login" -> loginRateLimitWindowMs
      [] scope = "users" -> usersRateLimitWindowMs
      [] scope = "notes" -> notesRateLimitWindowMs

limiterMax_usersForAll(scope) == usersRateLimitMaxRequests

limiterMax(scope) ==
    CASE scope = "login" -> loginRateLimitMaxRequests
      [] scope = "users" -> usersRateLimitMaxRequests
      [] scope = "notes" -> notesRateLimitMaxRequests

\* The skip option of the users limiter (line 232): req.path === '/login'.
usersLimiterSkip_never(p) == Len(p) < 0

usersLimiterSkip(p) == mountedPath(p, P_users) = P_login

\* Whether the limiter of the scope is mounted on the path and not skipped.
limiterApplies_loginExact(scope, p) ==
    CASE scope = "login" -> lowerPath(p) = P_users_login
      [] scope = "users" -> mountMatches(p, P_users) /\ ~usersLimiterSkip(p)
      [] scope = "notes" -> mountMatches(p, P_notes)

limiterApplies(scope, p) ==
    CASE scope = "login" -> mountMatches(p, P_users_login)
      [] scope = "users" -> mountMatches(p, P_users) /\ ~usersLimiterSkip(p)
      [] scope = "notes" -> mountMatches(p, P_notes)

NoWindow == [totalHits |-> 0, resetTime |-> 0]

skipFailedRequests_on == TRUE

\* rateLimit is called without skipFailedRequests (lines 200-205), so a hit
\* stays counted whatever status the request is answered with.
skipFailedRequests == FALSE

storeIncrement_neverExpires(w, t, windowMs) ==
    IF w.totalHits = 0
    THEN [totalHits |-> 1, resetTime |-> t + windowMs]
    ELSE [w EXCEPT !.totalHits = @ + 1]

\* MemoryStore.increment of express-rate-limit: a fixed window per key.
storeIncrement(w, t, windowMs) ==
    IF w.resetTime <= t
    THEN [totalHits |-> 1, resetTime |-> t + windowMs]
    ELSE [w EXCEPT !.totalHits = @ + 1]

limiterRetryAfter_floor(w, t) ==
    IF w.resetTime - t > 0 THEN (w.resetTime - t) \div 1000 ELSE 0

\* Retry-After set by the limiter middleware on a rejection.
limiterRetryAfter(w, t) ==
    LET delta == ceilSeconds(IF w.resetTime - t > 0 THEN w.resetTime - t ELSE 0)
    IN  IF delta > 0 THEN delta ELSE 0

runLimiters_oneKey(ws, p, client, t) ==
    LET start == [windows |-> ws, counted |-> {}, rejectedBy |-> "", retryAfter |-> 0]
        key == "10.0.0.1"
        step(acc, scope) ==
            IF acc.rejectedBy # "" \/ ~limiterApplies(scope, p) THEN acc
            ELSE LET w == storeIncrement(acc.windows[scope][key], t,
                                         limiterWindowMs(scope))
                 IN  [windows |-> [acc.windows EXCEPT ![scope][key] = w],
                      counted |-> acc.counted \cup {scope},
                      rejectedBy |-> IF w.totalHits > limiterMax(scope)
                                     THEN scope ELSE "",
                      retryAfter |-> limiterRetryAfter(w, t)]
    IN  step(step(step(start, "login"), "users"), "notes")

\* The three limiter mounts in registration order (login, users, notes);
\* a rejection ends the request, so later limiters do not count it.
runLimiters(ws, p, client, t) ==
    LET start == [windows |-> ws, counted |-> {}, rejectedBy |-> "", retryAfter |-> 0]
        step(acc, scope) ==
            IF acc.rejectedBy # "" \/ ~limiterApplies(scope, p) THEN acc
            ELSE LET w == storeIncrement(acc.windows[scope][client], t,
                                         limiterWindowMs(scope))
                 IN  [windows |-> [acc.windows EXCEPT ![scope][client] = w],
                      counted |-> acc.counted \cup {scope},
                      rejectedBy |-> IF w.totalHits > limiterMax(scope)
                                     THEN scope ELSE "",
                      retryAfter |-> limiterRetryAfter(w, t)]
    IN  step(step(step(start, "login"), "users"), "notes")

-----------------------------------------------------------------------------
(* Tokens.  A token is its number of dot-separated segments, whether its   *)
(* header segment decodes to JSON, the alg the header declares, its        *)
(* payload and its signature.  HMAC is an ideal MAC: a signature is the    *)
(* triple it was computed from, with the length of its base64url text, so  *)
(* two signatures are equal exactly when algorithm, key and signed data    *)
(* are equal.                                                              *)

Absent == "<absent>"          \* a claim the payload does not have
NonString == "<non-string>"   \* a claim whose value is not a string
NoExp == 0                    \* no exp claim

EmptySig == [alg |-> "", key |-> "", data |-> <<>>, len |-> 0]

\* Characters of digest('base64url') for a digest of 32, 48 and 64 bytes.
digestLength(alg) ==
    CASE alg = "HS256" -> 43
      [] alg = "HS384" -> 64
      [] alg = "HS512" -> 86
      [] OTHER -> 0

\* createHmac(alg, key).update(data).digest('base64url')
createHmac(alg, key, data) ==
    [alg |-> alg, key |-> key, data |-> data, len |-> digestLength(alg)]

\* jwt.sign(payload, key) with header alg (user_service signUserToken).
signToken(payload, key, alg) ==
    [parts |-> 3, headerJson |-> TRUE, alg |-> alg, payload |-> payload,
     sig |-> createHmac(alg, key, <<alg, payload>>)]

HmacAlgorithms == {"HS256", "HS384", "HS512"}

VerifyFailed == [ok |-> FALSE]

jwtVerify_noSignatureCheck(token, secret, t) ==
    IF token.parts # 3 THEN VerifyFailed
    ELSE IF token.payload.exp # NoExp /\ t \div 1000 >= token.payload.exp
         THEN VerifyFailed
    ELSE [ok |-> TRUE, payload |-> token.payload]

\* jwt.verify(token, secret) of jsonwebtoken with a string secret, as called
\* by the gateway (index.ts line 307): structure, signature present, HMAC
\* algorithm, signature, then expiry (exp in seconds).
jwtVerify(token, secret, t) ==
    IF token.parts # 3 THEN VerifyFailed
    ELSE IF ~token.headerJson THEN VerifyFailed
    ELSE IF token.sig = EmptySig THEN VerifyFailed
    ELSE IF token.alg \notin HmacAlgorithms THEN VerifyFailed
    ELSE IF token.sig # createHmac(token.alg, secret, <<token.alg, token.payload>>)
         THEN VerifyFailed
    ELSE IF token.payload.exp # NoExp /\ t \div 1000 >= token.payload.exp
         THEN VerifyFailed
    ELSE [ok |-> TRUE, payload |-> token.payload]

\* What verifyJwtPayload returns when it returns null, with the check that
\* failed.
NotesNull(step) == [ok |-> FALSE, step |-> step, thrown |-> FALSE]

tryVerifyJwtPayload_noSignatureCheck(token, secret) ==
    IF ~token.headerJson THEN [thrown |-> TRUE, step |-> "header"]
    ELSE IF token.alg # "HS256" THEN NotesNull("alg")
    ELSE IF ~token.payload.isObject THEN [thrown |-> TRUE, step |-> "payload"]
    ELSE [ok |-> TRUE, payload |-> token.payload, step |-> "done",
          thrown |-> FALSE]

\* noteRoutes.ts verifyJwtPayload, the try block (lines 23-42): the header
\* is decoded (JSON.parse throws on a header that is not JSON), alg must be
\* HS256, the provided signature must have the length and then the bytes of
\* the HMAC-SHA256 of header.payload, and only then the payload is decoded
\* (JSON.parse throws on a payload that is not JSON).
tryVerifyJwtPayload(token, secret) ==
    IF ~token.headerJson THEN [thrown |-> TRUE, step |-> "header"]
    ELSE IF token.alg # "HS256" THEN NotesNull("alg")
    ELSE LET expectedSignature ==
                 createHmac("HS256", secret, <<token.alg, token.payload>>)
         IN  IF expectedSignature.len # token.sig.len THEN NotesNull("length")
             ELSE IF expectedSignature # token.sig THEN NotesNull("signature")
             ELSE IF ~token.payload.isObject
                  THEN [thrown |-> TRUE, step |-> "payload"]
             ELSE [ok |-> TRUE, payload |-> token.payload, step |-> "done",
                   thrown |-> FALSE]

\* noteRoutes.ts verifyJwtPayload (lines 15-46): three segments, then the
\* try block; catch { return null }.
verifyJwtPayload(token, secret) ==
    IF token.parts # 3 THEN NotesNull("segments")
    ELSE LET r == tryVerifyJwtPayload(token, secret)
         IN  IF r.thrown THEN NotesNull(r.step) ELSE r

isString(v) == v \notin {Absent, NonString}

\* typeof decoded.sub === 'string' ? decoded.sub : ''
stringClaim(v) == IF isString(v) THEN v ELSE ""

roleOf_adminUnlessUser(payload) ==
    IF payload.role = "user" THEN "user" ELSE "admin"

\* decoded.role === 'admin' ? 'admin' : 'user'
roleOf(payload) == IF payload.role = "admin" THEN "admin" ELSE "user"

-----------------------------------------------------------------------------
(* Error envelopes.  A response the gateway writes itself is the record of *)
(* its status, the fields of its JSON body { error: { code, message, ... },*)
(* requestId } and, when set, its Retry-After header.                      *)

\* The placeholder the handlers fall back to when no request id is known.
NotAvailable == <<"n/a">>

\* errors.ts: new AppError(message, statusCode, code)
AppError(message, statusCode, code) ==
    [isAppError |-> TRUE, message |-> message, statusCode |-> statusCode,
     code |-> code]

\* An error thrown by anything else: only its message is known.
OtherError(message) == [isAppError |-> FALSE, message |-> message]

\* errors.ts notFoundHandler
notFoundHandler == AppError("Route not found", 404, "NOT_FOUND")

errorHandler_placeholderId(err, contextId) ==
    [status |-> IF err.isAppError THEN err.statusCode ELSE 500,
     code |-> IF err.isAppError THEN err.code ELSE "INTERNAL_ERROR",
     message |-> IF err.isAppError THEN err.message ELSE "Internal server error",
     requestId |-> NotAvailable, logged |-> err.message]

errorHandler_leaksMessage(err, contextId) ==
    [status |-> IF err.isAppError THEN err.statusCode ELSE 500,
     code |-> IF err.isAppError THEN err.code ELSE "INTERNAL_ERROR",
     message |-> err.message,
     requestId |-> IF contextId # NoRequestId THEN contextId ELSE NotAvailable,
     logged |-> err.message]

\* errors.ts errorHandler (lines 19-40); contextId is req.requestId.
errorHandler(err, contextId) ==
    LET requestId == IF contextId # NoRequestId THEN contextId ELSE NotAvailable
        appError == IF err.isAppError THEN err
                    ELSE AppError("Internal server error", 500, "INTERNAL_ERROR")
    IN  [status |-> appError.statusCode, code |-> appError.code,
         message |-> appError.message, requestId |-> requestId,
         logged |-> err.message]

\* The handler of a rate limiter (lines 206-226).
rateLimitHandler(limiterName, contextId) ==
    [status |-> 429, code |-> "RATE_LIMITED",
     message |-> "Too many requests, please try again later.",
     limiter |-> limiterName,
     requestId |-> IF contextId # NoRequestId THEN contextId ELSE NotAvailable]

\* sendCircuitOpenResponse (lines 149-176); headerId is the request's
\* x-request-id header as getSingleHeaderValue returns it.
sendCircuitOpenResponse(contextId, headerId, b, t) ==
    [status |-> 503, code |-> "CIRCUIT_OPEN",
     message |-> "Upstream service temporarily unavailable",
     service |-> b.targetService,
     retryAfterHeader |-> circuitRetryAfter(b, t),
     retryAfterSeconds |-> circuitRetryAfter(b, t),
     requestId |-> IF contextId # NoRequestId THEN contextId ELSE headerId]

sendUpstreamErrorResponse_rawMessage(headerId, contextId, targetService, error, headersSent, isSocket) ==
    [status |-> 502, code |-> "UPSTREAM_ERROR", message |-> error,
     service |-> targetService, requestId |-> headerId, logged |-> error]

\* sendUpstreamErrorResponse (lines 55-90): the envelope is written unless
\* the response has already started (headersSent) or is a raw socket.
sendUpstreamErrorResponse(headerId, contextId, targetService, error, headersSent, isSocket) ==
    LET requestId == IF headerId # NoRequestId THEN headerId
                     ELSE IF contextId # NoRequestId THEN contextId
                     ELSE NotAvailable
    IN  IF headersSent \/ isSocket
        THEN [status |-> 0, code |-> "", message |-> "", service |-> "",
              requestId |-> NoRequestId, logged |-> error]
        ELSE [status |-> 502, code |-> "UPSTREAM_ERROR",
              message |-> "Service unavailable", service |-> targetService,
              requestId |-> requestId, logged |-> error]

-----------------------------------------------------------------------------
(* Auth middleware, index.ts lines 286-328.  The result is either          *)
(* next() with the (possibly rewritten) request headers, or the 401        *)
(* AppError.                                                               *)

Unauthorized ==
    [next |-> FALSE, verified |-> FALSE,
     err |-> AppError("Unauthorized", 401, "UNAUTHORIZED")]

authMiddleware_trustClientHeaders(path, headers, t) ==
    [next |-> TRUE, verified |-> FALSE, headers |-> headers]

authMiddleware_tellsMissingToken(path, headers, t) ==
    IF (~startsWith(path, P_users) /\ ~startsWith(path, P_notes))
          \/ path = P_users_login
    THEN [next |-> TRUE, verified |-> FALSE, headers |-> headers]
    ELSE IF headers.authorization.scheme # "Bearer "
    THEN [next |-> FALSE, verified |-> FALSE,
          err |-> AppError("Missing bearer token", 401, "MISSING_TOKEN")]
    ELSE LET decoded == jwtVerify(headers.authorization.token, jwtSecret, t)
         IN  IF ~decoded.ok \/ ~decoded.payload.isObject
                   \/ stringClaim(decoded.payload.sub) = ""
             THEN Unauthorized
             ELSE [next |-> TRUE, verified |-> TRUE,
                   headers |-> [headers EXCEPT
                       !.xUserId = stringClaim(decoded.payload.sub),
                       !.xUserEmail = stringClaim(decoded.payload.email),
                       !.xUserRole = roleOf(decoded.payload)]]

authMiddleware_mergeIdentity(path, headers, t) ==
    IF (~startsWith(path, P_users) /\ ~startsWith(path, P_notes))
          \/ path = P_users_login
    THEN [next |-> TRUE, verified |-> FALSE, headers |-> headers]
    ELSE IF headers.authorization.scheme # "Bearer " THEN Unauthorized
    ELSE LET decoded == jwtVerify(headers.authorization.token, jwtSecret, t)
         IN  IF ~decoded.ok \/ ~decoded.payload.isObject
                   \/ stringClaim(decoded.payload.sub) = ""
             THEN Unauthorized
             ELSE [next |-> TRUE, verified |-> TRUE,
                   headers |-> [headers EXCEPT
                       !.xUserId = stringClaim(decoded.payload.sub),
                       !.xUserEmail =
                           IF stringClaim(decoded.payload.email) # ""
                           THEN stringClaim(decoded.payload.email) ELSE @,
                       !.xUserRole = roleOf(decoded.payload)]]

authMiddleware_noPublicRoute(path, headers, t) ==
    IF ~startsWith(path, P_users) /\ ~startsWith(path, P_notes)
    THEN [next |-> TRUE, verified |-> FALSE, headers |-> headers]
    ELSE Unauthorized

authMiddleware(path, headers, t) ==
    LET isUsersRoute == startsWith(path, P_users)
        isNotesRoute == startsWith(path, P_notes)
        isPublicRoute == path = P_users_login
        authHeader == headers.authorization
    IN  IF ~isUsersRoute /\ ~isNotesRoute
        THEN [next |-> TRUE, verified |-> FALSE, headers |-> headers]
        ELSE IF isPublicRoute
        THEN [next |-> TRUE, verified |-> FALSE, headers |-> headers]
        ELSE IF authHeader.scheme # "Bearer " THEN Unauthorized
        ELSE LET decoded == jwtVerify(authHeader.token, jwtSecret, t)
             IN  IF ~decoded.ok THEN Unauthorized
                 ELSE IF ~decoded.payload.isObject THEN Unauthorized
                 ELSE LET userId == stringClaim(decoded.payload.sub)
                          userEmail == stringClaim(decoded.payload.email)
                          userRole == roleOf(decoded.payload)
                      IN  IF userId = "" THEN Unauthorized
                          ELSE [next |-> TRUE, verified |-> TRUE,
                                headers |-> [headers EXCEPT
                                    !.xUserId = userId,
                                    !.xUserEmail = userEmail,
                                    !.xUserRole = userRole]]

\* noteRoutes.ts getRequester (lines 48-68)
getRequester(headers) ==
    IF headers.authorization.scheme # "Bearer " THEN [ok |-> FALSE]
    ELSE LET payload == verifyJwtPayload(headers.authorization.token, jwtSecret)
         IN  IF ~payload.ok THEN [ok |-> FALSE]
             ELSE IF stringClaim(payload.payload.sub) = "" THEN [ok |-> FALSE]
             ELSE [ok |-> TRUE,
                   requesterId |-> stringClaim(payload.payload.sub),
                   requesterRole |-> roleOf(payload.payload)]

\* user_service auth/jwt.ts getRequesterFromAuthorizationHeader (lines 23-49)
getRequesterFromAuthorizationHeader(authHeader, t) ==
    IF authHeader.scheme # "Bearer " THEN [ok |-> FALSE]
    ELSE LET decoded == jwtVerify(authHeader.token, jwtSecret, t)
         IN  IF ~decoded.ok THEN [ok |-> FALSE]
             ELSE IF ~decoded.payload.isObject THEN [ok |-> FALSE]
             ELSE IF stringClaim(decoded.payload.sub) = "" THEN [ok |-> FALSE]
             ELSE [ok |-> TRUE,
                   requesterId |-> stringClaim(decoded.payload.sub),
                   requesterRole |-> roleOf(decoded.payload),
                   requesterEmail |-> stringClaim(decoded.payload.email)]

-----------------------------------------------------------------------------
(* Requests and responses *)

P_users_7 == P_users \o <<"/", "7">>
P_Users_7 == <<"/", "U", "s", "e", "r", "s", "/", "7">>
P_users_login_slash == P_users_login \o <<"/">>
P_users_Login == P_users \o <<"/", "L", "o", "g", "i", "n">>
P_Users_login == <<"/", "U", "s", "e", "r", "s">> \o P_login
P_users_login_reset == P_users_login \o <<"/", "r", "e", "s", "e", "t">>
P_notes_7 == P_notes \o <<"/", "7">>
P_health == <<"/", "h", "e", "a", "l", "t", "h">>
P_other == <<"/", "o", "t", "h", "e", "r">>

NoAuthorization == [scheme |-> "", token |-> [parts |-> 0, headerJson |-> FALSE, alg |-> "",
                    payload |-> [isObject |-> FALSE, sub |-> Absent, role |-> Absent,
                                 email |-> Absent, exp |-> NoExp],
                    sig |-> EmptySig]]

NoHeaders ==
    [authorization |-> NoAuthorization, xUserId |-> NoHeader,
     xUserEmail |-> NoHeader, xUserRole |-> NoHeader, xRequestId |-> NoRequestId]

bearer(token) == [scheme |-> "Bearer ", token |-> token]

claims(sub, role, email, exp) ==
    [isObject |-> TRUE, sub |-> sub, role |-> role, email |-> email, exp |-> exp]

NoField == -1    \* a field or header the response does not carry

\* What a handler did.  For a request: the id on the request context
\* (requestId), on the request's own x-request-id header (reqXRequestId) and
\* on the response header (resXRequestId); the middleware that ended the
\* chain (stage); the response's status and, for a
\* JSON envelope the gateway wrote, its error code, message and requestId
\* (bodyRequestId); for an upstream response the proxy relays, relayed.
\* For a request that reached a service: whether its verifier returned a
\* requester (verified), the requester, and the check verifyJwtPayload
\* stopped at (step); for a request to a notes route also the note id of the
\* URL, the userId of the query and of the body, and the notes returned,
\* created, updated or deleted (result).
NoEvent ==
    [op |-> "none", path |-> <<>>, client |-> "", headers |-> NoHeaders,
     requestId |-> NoRequestId, reqXRequestId |-> NoRequestId,
     resXRequestId |-> NoRequestId, bodyRequestId |-> NoRequestId,
     counted |-> {}, target |-> "none",
     status |-> 0, code |-> "", message |-> "", limiter |-> "", service |-> "",
     retryAfterHeader |-> NoField, bodyRetryAfterSeconds |-> NoField,
     forwarded |-> FALSE, fwd |-> NoHeaders, verified |-> FALSE,
     probe |-> FALSE, seen |-> NoField, outcome |-> "", branch |-> "",
     stage |-> "", step |-> "", thrown |-> FALSE, requesterId |-> "",
     requesterRole |-> "", noteId |-> 0, queryUserId |-> "",
     bodyUserId |-> "", result |-> {},
     upstreamStatus |-> NoField, relayed |-> FALSE, logged |-> ""]

\* String.prototype.trim on a header value: leading and trailing white space
\* is removed.  The HTTP parser has already removed spaces and tabs around a
\* header value; a no-break space (a legal header byte) is still there.
WhiteSpace == {" ", "nbsp"}

RECURSIVE trimStart(_)
trimStart(s) ==
    IF s # <<>> /\ Head(s) \in WhiteSpace THEN trimStart(Tail(s)) ELSE s

RECURSIVE trimEnd(_)
trimEnd(s) ==
    IF s # <<>> /\ s[Len(s)] \in WhiteSpace
    THEN trimEnd(SubSeq(s, 1, Len(s) - 1)) ELSE s

trim(s) == trimEnd(trimStart(s))

\* randomUUID(): an identifier no client header is equal to.
randomUUID == <<"uuid">>

stampRequestId_alwaysFresh(headers) == randomUUID

\* Request id middleware (lines 179-192): a non-empty trimmed inbound
\* x-request-id is reused, otherwise randomUUID().
stampRequestId(headers) ==
    LET incomingRequestId == trim(headers.xRequestId)
    IN  IF incomingRequestId # <<>> THEN incomingRequestId ELSE randomUUID

\* The proxied request: http-proxy copies the incoming request's headers,
\* then the proxyReq handler (lines 361-383) sets each non-empty one again.
proxyReqHeaders_dropIdentity(headers) ==
    [headers EXCEPT !.xUserId = NoHeader, !.xUserEmail = NoHeader,
                    !.xUserRole = NoHeader]

proxyReqHeaders(headers) ==
    LET outgoing == headers
    IN  [outgoing EXCEPT
            !.xRequestId = IF headers.xRequestId # <<>> THEN headers.xRequestId ELSE @,
            !.authorization = IF headers.authorization.scheme # ""
                              THEN headers.authorization ELSE @,
            !.xUserId = IF headers.xUserId # "" THEN headers.xUserId ELSE @,
            !.xUserEmail = IF headers.xUserEmail # "" THEN headers.xUserEmail ELSE @,
            !.xUserRole = IF headers.xUserRole # "" THEN headers.xUserRole ELSE @]

\* A request admitted once the open period of a breaker that has opened is over.
isRecoveryProbe(b, t) == b.openedAt # NoTime /\ t >= b.openUntil

RemoveAt(s, i) == SubSeq(s, 1, i - 1) \o SubSeq(s, i + 1, Len(s))

TypeOK ==
    /\ now \in 0..(MaxTicks * (TickMs + 1))
    /\ DOMAIN breaker = Upstreams
    /\ DOMAIN windows = Scopes
    /\ Len(inflight) <= scenario.pending

-----------------------------------------------------------------------------
(* Actions *)

answeringStage_authFirst(rejectedBy, target, open, authNext, path) ==
    IF ~authNext THEN "auth"
    ELSE IF rejectedBy # "" THEN "limiter"
    ELSE IF target # "none" /\ open THEN "circuit"
    ELSE IF path = P_health THEN "route"
    ELSE IF target # "none" THEN "proxy"
    ELSE "notFound"

\* The middleware that ends the chain, in registration order (lines 229-444):
\* a limiter that rejects, the circuit check of an open breaker, the auth
\* middleware, a route of the gateway itself, a proxy, notFoundHandler.
answeringStage(rejectedBy, target, open, authNext, path) ==
    IF rejectedBy # "" THEN "limiter"
    ELSE IF target # "none" /\ open THEN "circuit"
    ELSE IF ~authNext THEN "auth"
    ELSE IF path = P_health THEN "route"
    ELSE IF target # "none" THEN "proxy"
    ELSE "notFound"

NoThrow == ""    \* no exception

\* The middleware chain for one arriving request, lines 179-445: stamper,
\* limiters, circuit check, auth, gateway routes, proxy, notFound and the
\* error handler.  thrown is the message of an exception raised in the proxy
\* middleware before the upstream call is started (the middleware passes it
\* to next(err)), or NoThrow.
\* What each middleware computes is bound once (\E over a
\* one-element set) and used by the stages after it.
Arrive(path, client, headers, thrown) ==
    \E requestId \in {stampRequestId(headers)},
       lim \in {runLimiters(windows, path, client, now)},
       target \in {targetOf(path)} :
    \E auth \in {authMiddleware(path, [headers EXCEPT !.xRequestId = requestId],
                                now)} :
    \E stage \in {answeringStage(lim.rejectedBy, target,
                      target # "none" /\ isCircuitOpen(breaker[target], now),
                      auth.next, path)} :
    LET stamped == [headers EXCEPT !.xRequestId = requestId]
        base == [NoEvent EXCEPT !.op = "request", !.path = path,
                                !.client = client, !.headers = headers,
                                !.requestId = requestId,
                                !.reqXRequestId = stamped.xRequestId,
                                !.resXRequestId = requestId,
                                !.counted = lim.counted, !.target = target,
                                !.stage = stage]
        envelope(r) == [base EXCEPT
                          !.status = r.status, !.code = r.code,
                          !.message = r.message, !.bodyRequestId = r.requestId,
                          !.logged = r.logged]
    IN  /\ \A s \in lim.counted :
              lim.windows[s][client].totalHits <= limiterMax(s) + MaxOver
        /\ windows' = IF skipFailedRequests /\ stage \in {"circuit", "auth", "notFound"}
                       THEN windows ELSE lim.windows
        /\ UNCHANGED <<scenario, now, breaker, streak, noteDocs>>
        /\ CASE stage = "limiter" ->
                /\ LET r == rateLimitHandler(lim.rejectedBy, requestId)
                   IN  last' = [base EXCEPT
                          !.status = r.status, !.code = r.code,
                          !.message = r.message, !.limiter = r.limiter,
                          !.bodyRequestId = r.requestId,
                          !.retryAfterHeader = lim.retryAfter]
                /\ UNCHANGED inflight
             [] stage = "circuit" ->
                /\ LET r == sendCircuitOpenResponse(requestId, stamped.xRequestId,
                                                    breaker[target], now)
                   IN  last' = [base EXCEPT
                          !.status = r.status, !.code = r.code,
                          !.message = r.message, !.service = r.service,
                          !.bodyRequestId = r.requestId,
                          !.retryAfterHeader = r.retryAfterHeader,
                          !.bodyRetryAfterSeconds = r.retryAfterSeconds]
                /\ UNCHANGED inflight
             [] stage = "auth" ->
                /\ last' = envelope(errorHandler(auth.err, requestId))
                /\ UNCHANGED inflight
             [] stage = "route" ->
                /\ last' = [base EXCEPT !.status = 200]
                /\ UNCHANGED inflight
             [] stage = "proxy" /\ thrown # NoThrow ->
                /\ last' = [envelope(errorHandler(OtherError(thrown), requestId))
                               EXCEPT !.verified = auth.verified]
                /\ UNCHANGED inflight
             [] stage = "proxy" /\ thrown = NoThrow ->
                /\ Len(inflight) < scenario.pending
                /\ inflight' = Append(inflight,
                      [target |-> target,
                       probe |-> isRecoveryProbe(breaker[target], now),
                       seen |-> breaker[target].consecutiveFailures,
                       requestId |-> requestId])
                /\ last' = [base EXCEPT
                      !.forwarded = TRUE,
                      !.fwd = proxyReqHeaders(auth.headers),
                      !.verified = auth.verified,
                      !.probe = isRecoveryProbe(breaker[target], now),
                      !.seen = breaker[target].consecutiveFailures]
             [] stage = "notFound" ->
                /\ last' = envelope(errorHandler(notFoundHandler, requestId))
                /\ UNCHANGED inflight

RecordFailure_sharedBreaker(target) ==
    /\ breaker' = [u \in Upstreams |-> markCircuitFailure(breaker[u], now)]
    /\ streak' = [streak EXCEPT ![target] =
                     IF @ >= circuitBreakerFailureThreshold THEN @ ELSE @ + 1]

\* markCircuitFailure as called by a handler, with the history variables.
RecordFailure(target) ==
    /\ breaker' = [breaker EXCEPT ![target] = markCircuitFailure(@, now)]
    /\ streak' = [streak EXCEPT ![target] =
                     IF @ >= circuitBreakerFailureThreshold THEN @ ELSE @ + 1]

\* (proxyRes.statusCode ?? 500) >= 500 (lines 389, 434)
isUpstreamFailure_from400(statusCode) == statusCode >= 400

isUpstreamFailure(statusCode) == statusCode >= 500

\* proxyRes handler (lines 388-395, 433-440): the upstream answered.  The
\* handler only updates the breaker; the proxy then copies the upstream's
\* status, headers and body to the client (selfHandleResponse is not set).
ProxyRes(i, statusCode) ==
    /\ i \in 1..Len(inflight)
    /\ LET r == inflight[i]
           ev == [NoEvent EXCEPT !.op = "proxyRes", !.target = r.target,
                                 !.requestId = r.requestId,
                                 !.resXRequestId = r.requestId,
                                 !.upstreamStatus = statusCode,
                                 !.status = statusCode, !.relayed = TRUE,
                                 !.probe = r.probe, !.seen = r.seen]
       IN  /\ inflight' = RemoveAt(inflight, i)
           /\ IF isUpstreamFailure(statusCode)
              THEN /\ RecordFailure(r.target)
                   /\ last' = [ev EXCEPT !.outcome = "failure",
                                  !.branch = failureBranch(breaker[r.target], now)]
              ELSE /\ breaker' = [breaker EXCEPT ![r.target] = markCircuitSuccess(@)]
                   /\ streak' = [streak EXCEPT ![r.target] = 0]
                   /\ last' = [ev EXCEPT !.outcome = "success"]
    /\ UNCHANGED <<scenario, now, windows, noteDocs>>

ProxyError_retryOnce(i, error) ==
    /\ i \in 1..Len(inflight)
    /\ LET r == inflight[i]
           res == sendUpstreamErrorResponse(r.requestId, r.requestId, r.target,
                                            error, FALSE, FALSE)
       IN  /\ inflight' = IF r.seen = 0 THEN Append(RemoveAt(inflight, i),
                                                    [r EXCEPT !.seen = 1])
                          ELSE RemoveAt(inflight, i)
           /\ RecordFailure(r.target)
           /\ last' = [NoEvent EXCEPT
                  !.op = "proxyError", !.target = r.target, !.probe = r.probe,
                  !.seen = r.seen,
                  !.requestId = r.requestId, !.resXRequestId = r.requestId,
                  !.status = res.status, !.code = res.code,
                  !.message = res.message, !.service = res.service,
                  !.bodyRequestId = res.requestId, !.logged = res.logged,
                  !.outcome = "failure",
                  !.branch = failureBranch(breaker[r.target], now)]
    /\ UNCHANGED <<scenario, now, windows, noteDocs>>

\* proxy error handler (lines 384-387, 429-432): connection error or timeout
\* of a call the upstream has not answered, so no response has started; the
\* proxies are mounted without ws, so the response is never a raw socket.
ProxyError(i, error) ==
    /\ i \in 1..Len(inflight)
    /\ LET r == inflight[i]
           res == sendUpstreamErrorResponse(r.requestId, r.requestId, r.target,
                                            error, FALSE, FALSE)
       IN  /\ inflight' = RemoveAt(inflight, i)
           /\ RecordFailure(r.target)
           /\ last' = [NoEvent EXCEPT
                  !.op = "proxyError", !.target = r.target, !.probe = r.probe,
                  !.seen = r.seen,
                  !.requestId = r.requestId, !.resXRequestId = r.requestId,
                  !.status = res.status, !.code = res.code,
                  !.message = res.message, !.service = res.service,
                  !.bodyRequestId = res.requestId, !.logged = res.logged,
                  !.outcome = "failure",
                  !.branch = failureBranch(breaker[r.target], now)]
    /\ UNCHANGED <<scenario, now, windows, noteDocs>>

\* Time passes.
Tick ==
    /\ now < scenario.ticks * TickMs
    /\ now' = now + TickMs
    /\ last' = [NoEvent EXCEPT !.op = "tick"]
    /\ UNCHANGED <<scenario, breaker, windows, inflight, streak, noteDocs>>

Clients == {"10.0.0.1", "10.0.0.2"}

\* The state after the module has loaded (lines 236-237 and the empty stores).
Start ==
    /\ now = 0
    /\ breaker = [u \in Upstreams |-> createCircuitBreaker(u)]
    /\ windows = [s \in Scopes |-> [c \in Clients |-> NoWindow]]
    /\ inflight = <<>>
    /\ last = NoEvent
    /\ streak = [u \in Upstreams |-> 0]
    /\ noteDocs = {}

UpstreamStatuses == {200, 401, 500}

\* error.message of a failed upstream call
UpstreamErrors == {"connect ECONNREFUSED", "socket hang up"}

-----------------------------------------------------------------------------
(* The requests clients send *)

UserToken == signToken(claims("u1", "user", "u1@example.com", NoExp), jwtSecret, "HS256")

UserHeaders == [NoHeaders EXCEPT !.authorization = bearer(UserToken)]

AdminClaims == claims("admin-1", "admin", "root@example.com", NoExp)
UserClaims == claims("u1", "user", Absent, NoExp)

AuthTokens ==
    {signToken(UserClaims, jwtSecret, "HS256"),
     signToken(AdminClaims, jwtSecret, "HS256"),
     signToken(AdminClaims, jwtSecret, "HS384"),
     \* role claim absent, in another letter case, not a string
     signToken(claims("u1", Absent, Absent, NoExp), jwtSecret, "HS256"),
     signToken(claims("u1", "Admin", Absent, NoExp), jwtSecret, "HS256"),
     signToken(claims("u1", NonString, Absent, NoExp), jwtSecret, "HS256"),
     \* expires at second 1
     signToken(claims("u1", "user", Absent, 1), jwtSecret, "HS256"),
     \* no subject, empty subject, non-string subject, non-object payload
     signToken(claims(Absent, "admin", Absent, NoExp), jwtSecret, "HS256"),
     signToken(claims("", "admin", Absent, NoExp), jwtSecret, "HS256"),
     signToken(claims(NonString, "admin", Absent, NoExp), jwtSecret, "HS256"),
     signToken([UserClaims EXCEPT !.isObject = FALSE], jwtSecret, "HS256"),
     \* signed with another key
     signToken(AdminClaims, "attacker-key", "HS256"),
     \* payload replaced after signing
     [signToken(UserClaims, jwtSecret, "HS256") EXCEPT !.payload = AdminClaims],
     \* header replaced after signing, alg none without signature
     [signToken(AdminClaims, jwtSecret, "HS256") EXCEPT !.alg = "HS384"],
     [parts |-> 3, headerJson |-> TRUE, alg |-> "none", payload |-> AdminClaims,
      sig |-> EmptySig],
     \* two segments
     [signToken(UserClaims, jwtSecret, "HS256") EXCEPT !.parts = 2]}

AuthorizationHeaders ==
    {NoAuthorization}
        \cup {bearer(t) : t \in AuthTokens}
        \cup {[scheme |-> "Basic ", token |-> signToken(AdminClaims, jwtSecret, "HS256")]}

\* Every authorization header without identity headers, and the spoofed
\* identity headers with no token, a user's token, an admin's token and a
\* forged admin token.
AuthHeaders ==
    {[NoHeaders EXCEPT !.authorization = a] : a \in AuthorizationHeaders}
        \cup
    {[NoHeaders EXCEPT !.authorization = a, !.xUserId = "admin-1",
                       !.xUserEmail = "root@example.com", !.xUserRole = "admin"] :
        a \in {NoAuthorization,
                bearer(signToken(UserClaims, jwtSecret, "HS256")),
                bearer(signToken(AdminClaims, jwtSecret, "HS256")),
                bearer(signToken(AdminClaims, "attacker-key", "HS256"))}}

\* The headers of the requests of a run: one valid user token, no token at
\* all, every credential above, or every inbound request id with and
\* without a valid token.
\* Inbound x-request-id values: none, white space only, an id, the id with
\* white space around it, an id with white space inside.
RequestIds ==
    {NoRequestId, <<"nbsp">>, <<"a", "b", "c">>, <<"nbsp", "a", "b", "c", "nbsp">>,
     <<"a", " ", "b">>}

RequestIdHeaders ==
    {[h EXCEPT !.xRequestId = id] : h \in {NoHeaders, UserHeaders}, id \in RequestIds}

headersOf(traffic) ==
    CASE traffic = "any-token" -> AuthHeaders
      [] traffic = "request-ids" -> RequestIdHeaders
      [] traffic = "no-token" -> {NoHeaders}
      [] OTHER -> {UserHeaders}

Next ==
    \/ \E path \in scenario.paths, client \in scenario.clients,
          headers \in headersOf(scenario.traffic), thrown \in scenario.throws :
             Arrive(path, client, headers, thrown)
    \/ \E i \in 1..MaxInflight, statusCode \in scenario.statuses : ProxyRes(i, statusCode)
    \/ \E i \in 1..MaxInflight, error \in scenario.errors : ProxyError(i, error)
    \/ Tick

-----------------------------------------------------------------------------
(* Spec: the circuit breaker of either upstream under concurrent           *)
(* authenticated traffic of one client, and under the sequential login     *)
(* requests of the demo script.                                            *)

\* scripts/circuit-breaker-demo.ps1: one client posting to /users/login
\* without a token, one request at a time.
DemoScenario ==
    [paths |-> {P_users_login}, clients |-> {"10.0.0.1"}, traffic |-> "no-token",
     ticks |-> MaxTicks, pending |-> 1,
     statuses |-> UpstreamStatuses, errors |-> UpstreamErrors,
      throws |-> {NoThrow}]

BreakerScenarios ==
    {[paths |-> {path}, clients |-> {"10.0.0.1"}, traffic |-> "user-token",
      ticks |-> MaxTicks, pending |-> MaxInflight,
      statuses |-> UpstreamStatuses, errors |-> UpstreamErrors,
      throws |-> {NoThrow}] :
        path \in {P_users_7, P_notes_7}}
        \cup {DemoScenario}

Init == scenario \in BreakerScenarios /\ Start

Spec == Init /\ [][Next]_vars

-----------------------------------------------------------------------------
(* Claims about the circuit breaker, checked under Spec *)

FreshlyOpened(u, t) ==
    [targetService |-> u, consecutiveFailures |-> 0,
     openedAt |-> t, openUntil |-> t + circuitBreakerOpenMs]

ProbesInFlight(u) ==
    {i \in 1..Len(inflight) : inflight[i].target = u /\ inflight[i].probe}

\* C1: counting from a fully closed breaker (created, or after a success),
\* the failure that makes threshold failures in a row with no success between
\* them opens the breaker with openedAt = now and openUntil = now +
\* circuitBreakerOpenMs; and every request for an upstream that arrives while
\* now < openUntil is answered 429 or 503 and no upstream call is started.
C1_ThresholdOpensAndRejects ==
    [][\A u \in Upstreams :
        /\ (streak[u] = circuitBreakerFailureThreshold - 1
              /\ streak'[u] = circuitBreakerFailureThreshold)
           => breaker'[u] = FreshlyOpened(u, now)
        /\ (last'.op = "request" /\ last'.target = u /\ now < breaker[u].openUntil)
           => /\ ~last'.forwarded
              /\ last'.status \in {429, 503}
              /\ inflight' = inflight
              /\ breaker' = breaker]_vars

C1_Witness ==
    \E u \in Upstreams :
        /\ streak[u] = circuitBreakerFailureThreshold
        /\ breaker[u].openedAt # NoTime
        /\ now < breaker[u].openUntil
        /\ last.op = "request" /\ last.target = u
        /\ last.status = 503 /\ last.code = "CIRCUIT_OPEN"

\* C2: at most one request per upstream is in flight as a recovery probe,
\* that is, forwarded after the open period ended and before an outcome for
\* that upstream was recorded.
C2_SingleRecoveryProbe ==
    \A u \in Upstreams : Cardinality(ProbesInFlight(u)) <= 1

\* C3: a failure recorded when the breaker has opened before and its
\* openUntil has passed reopens it at once: consecutiveFailures = 0,
\* openedAt = now, openUntil = now + circuitBreakerOpenMs.
C3_FailedProbeReopens ==
    [][\A u \in Upstreams :
        (/\ last'.outcome = "failure" /\ last'.target = u
         /\ breaker[u].openedAt # NoTime
         /\ now >= breaker[u].openUntil)
        => breaker'[u] = FreshlyOpened(u, now)]_vars

C3_Witness ==
    \E u \in Upstreams :
        /\ last.outcome = "failure" /\ last.target = u /\ last.probe
        /\ last.branch = "recovery_probe_failed"
        /\ breaker[u] = FreshlyOpened(u, now)
        /\ now >= 2 * circuitBreakerOpenMs

\* C4: a recorded success (a recovery probe's included) leaves the breaker
\* fully closed (consecutiveFailures = 0, openedAt = null, openUntil = 0), and
\* a breaker is open only after a full threshold of failures recorded since
\* the last success.
C4_SuccessClosesFully ==
    \A u \in Upstreams :
        /\ (last.outcome = "success" /\ last.target = u)
           => breaker[u] = createCircuitBreaker(u)
        /\ breaker[u].openedAt # NoTime
           => streak[u] = circuitBreakerFailureThreshold

C4_Witness ==
    \E u \in Upstreams :
        /\ last.outcome = "success" /\ last.target = u /\ last.probe
        /\ breaker[u] = createCircuitBreaker(u)

\* C11: while now < openUntil every request for that upstream that the rate
\* limiters admitted is answered 503 CIRCUIT_OPEN naming the upstream, with
\* the Retry-After header and the body's retryAfterSeconds both equal to
\* ceil((openUntil - now) / 1000), a value between 0 and
\* ceil(circuitBreakerOpenMs / 1000), carrying the request id; no upstream
\* call is started and the breaker is left as it was.
C11_OpenAnswers503 ==
    [][\A u \in Upstreams :
        (/\ last'.op = "request" /\ last'.target = u
         /\ now < breaker[u].openUntil
         /\ last'.status # 429)
        => /\ last'.status = 503 /\ last'.code = "CIRCUIT_OPEN"
           /\ last'.service = u
           /\ last'.retryAfterHeader = (breaker[u].openUntil - now + 999) \div 1000
           /\ last'.bodyRetryAfterSeconds = last'.retryAfterHeader
           /\ last'.retryAfterHeader >= 0
           /\ last'.retryAfterHeader <= (circuitBreakerOpenMs + 999) \div 1000
           /\ last'.bodyRequestId = last'.requestId
           /\ ~last'.forwarded
           /\ inflight' = inflight
           /\ breaker' = breaker]_vars

C11_Witness ==
    /\ last.op = "request" /\ last.target = "notes_service"
    /\ last.status = 503 /\ last.service = "notes_service"
    /\ breaker["notes_service"].openUntil - now = TickMs
    /\ last.retryAfterHeader = 1 /\ last.bodyRetryAfterSeconds = 1
    /\ Len(inflight) = 1

\* What recording one failure at time t does to a breaker.
AfterFailure(b, t) ==
    IF t < b.openUntil THEN b
    ELSE IF b.openedAt # NoTime THEN FreshlyOpened(b.targetService, t)
    ELSE IF b.consecutiveFailures + 1 >= circuitBreakerFailureThreshold
         THEN FreshlyOpened(b.targetService, t)
    ELSE [b EXCEPT !.consecutiveFailures = b.consecutiveFailures + 1]

\* C12: an upstream outcome is recorded as a failure exactly when it is a
\* connection error / timeout or a response with status >= 500; a response
\* with status < 500 (a 4xx included) is recorded as a success and leaves
\* consecutiveFailures = 0; a never-opened breaker opens only on the failure
\* that completes threshold failures with no success between them.
C12_FailureIffErrorOr5xx ==
    [][\A u \in Upstreams :
        /\ (last'.op = "proxyRes" /\ last'.target = u /\ last'.upstreamStatus < 500)
           => /\ last'.outcome = "success"
              /\ breaker'[u] = createCircuitBreaker(u)
              /\ streak'[u] = 0
        /\ (/\ last'.target = u
            /\ \/ last'.op = "proxyError"
               \/ last'.op = "proxyRes" /\ last'.upstreamStatus >= 500)
           => /\ last'.outcome = "failure"
              /\ breaker'[u] = AfterFailure(breaker[u], now)
        /\ (breaker[u].openedAt = NoTime /\ breaker'[u].openedAt # NoTime)
           => /\ last'.outcome = "failure"
              /\ streak[u] = circuitBreakerFailureThreshold - 1]_vars

C12_Witness ==
    \E u \in Upstreams :
        /\ last.op = "proxyRes" /\ last.target = u /\ last.upstreamStatus = 401
        /\ last.seen = circuitBreakerFailureThreshold - 1
        /\ last.outcome = "success"
        /\ breaker[u].consecutiveFailures = 0 /\ streak[u] = 0

\* C13: with several requests to one upstream in flight at once, in every
\* order in which their outcomes arrive, a failure recorded on a breaker that
\* has not opened since its last success raises consecutiveFailures by
\* exactly one, or opens the breaker when that makes the threshold; the
\* counter of such a breaker equals the number of failures recorded since
\* the last success, so the failure that completes the threshold always
\* leaves the breaker open.
C13_NoLostBreakerUpdate ==
    [][\A u \in Upstreams :
        /\ (last'.outcome = "failure" /\ last'.target = u
              /\ breaker[u].openedAt = NoTime)
           => IF breaker[u].consecutiveFailures + 1 < circuitBreakerFailureThreshold
              THEN /\ breaker'[u].consecutiveFailures =
                         breaker[u].consecutiveFailures + 1
                   /\ breaker'[u].openedAt = NoTime
              ELSE /\ breaker'[u] = FreshlyOpened(u, now)
                   /\ now < breaker'[u].openUntil
        /\ breaker'[u].openedAt = NoTime
           => /\ breaker'[u].consecutiveFailures = streak'[u]
              /\ streak'[u] < circuitBreakerFailureThreshold]_vars

\* The failure that opens the breaker belongs to a request admitted when the
\* counter was 0: the other failures were recorded while it was in flight.
C13_Witness ==
    \E u \in Upstreams :
        /\ last.outcome = "failure" /\ last.target = u
        /\ last.branch = "failure_threshold_reached"
        /\ last.seen = 0 /\ circuitBreakerFailureThreshold > 1
        /\ breaker[u] = FreshlyOpened(u, now)
        /\ streak[u] = circuitBreakerFailureThreshold

\* C14: for the demo's sequential login requests (no token): the failure that
\* completes the threshold leaves the user_service breaker open, so the next
\* login request, sent before openUntil, is answered 503 CIRCUIT_OPEN; a
\* login request arriving once openUntil has passed is forwarded, not
\* answered 503; and the client receives the status the upstream answers
\* with (401 for invalid credentials), which also closes the breaker.  (A
\* request the login limiter rejects is answered 429 before any of this.)
C14_DemoEndToEnd ==
    [][scenario = DemoScenario =>
        LET u == "user_service"
        IN  /\ (streak[u] = circuitBreakerFailureThreshold - 1
                  /\ streak'[u] = circuitBreakerFailureThreshold)
               => now < breaker'[u].openUntil
            /\ (last'.op = "request" /\ last'.status # 429)
               => IF now < breaker[u].openUntil
                  THEN /\ last'.status = 503 /\ last'.code = "CIRCUIT_OPEN"
                       /\ ~last'.forwarded
                  ELSE /\ last'.forwarded /\ last'.status # 503
                       /\ Len(inflight') = 1
            /\ last'.op = "proxyRes"
               => /\ last'.status = last'.upstreamStatus /\ last'.relayed
                  /\ last'.upstreamStatus = 401
                     => breaker'[u] = createCircuitBreaker(u)]_vars

\* The recovery probe of the demo: a login request forwarded after the open
\* period, answered 401 by the upstream and relayed as 401.
C14_Witness ==
    /\ scenario = DemoScenario
    /\ last.op = "proxyRes" /\ last.target = "user_service" /\ last.probe
    /\ last.upstreamStatus = 401 /\ last.status = 401
    /\ breaker["user_service"] = createCircuitBreaker("user_service")
    /\ now >= circuitBreakerOpenMs

C16_Upstream5xxNormalized ==
    (last.op = "proxyRes" /\ last.upstreamStatus >= 500) =>
        /\ last.outcome = "failure"
        /\ last.status \in {502, 503}
        /\ last.code \in {"UPSTREAM_ERROR", "CIRCUIT_OPEN"}
        /\ ~last.relayed

-----------------------------------------------------------------------------
(* SpecLimiter: the rate limiters, for one client on the users-scoped      *)
(* paths (login and users windows) and for two clients on a notes path.    *)

LimiterScenarios ==
    {[paths |-> {P_users_login, P_users_login_slash, P_Users_login,
                 P_users_7},
      clients |-> {"10.0.0.1"}, traffic |-> "user-token",
      ticks |-> LimiterTicks, pending |-> LimiterInflight,
      statuses |-> {200}, errors |-> {"socket hang up"}, throws |-> {NoThrow}],
     [paths |-> {P_notes_7},
      clients |-> Clients, traffic |-> "user-token",
      ticks |-> LimiterTicks, pending |-> LimiterInflight,
      statuses |-> {200}, errors |-> {"socket hang up"}, throws |-> {NoThrow}]}

InitLimiter == scenario \in LimiterScenarios /\ Start

SpecLimiter == InitLimiter /\ [][Next]_vars

\* The max and the window each scope is configured with (lines 229-234).
ScopeMax ==
    [login |-> loginRateLimitMaxRequests, users |-> usersRateLimitMaxRequests,
     notes |-> notesRateLimitMaxRequests]

ScopeWindowMs ==
    [login |-> loginRateLimitWindowMs, users |-> usersRateLimitWindowMs,
     notes |-> notesRateLimitWindowMs]

\* C8: for every scope and client the k-th request of a window is admitted by
\* that scope's limiter when k <= max and answered 429 RATE_LIMITED naming the
\* scope when k > max; a 429 is never forwarded.
C8_WindowAdmitsExactlyMax ==
    last.op = "request" =>
        /\ \A s \in last.counted :
              LET k == windows[s][last.client].totalHits
              IN  /\ k >= 1
                  /\ now < windows[s][last.client].resetTime
                  /\ (k > ScopeMax[s]) <=>
                        (last.status = 429 /\ last.code = "RATE_LIMITED"
                            /\ last.limiter = s)
        /\ last.status = 429 => (last.limiter \in last.counted /\ ~last.forwarded)
        /\ \A s \in Scopes \ last.counted : last.limiter # s

C8_Witness ==
    /\ last.op = "request" /\ last.status = 429 /\ last.limiter = "notes"
    /\ windows["notes"][last.client].totalHits = notesRateLimitMaxRequests + 1
    /\ \E c \in Clients \ {last.client} :
          windows["notes"][c].totalHits = notesRateLimitMaxRequests

\* C9 as claimed (on lower-case paths): a request to the login path
\* increments the login window only, every other users-prefixed request the
\* users window only.
C9_LoginOnlyLoginOthersOnlyUsers ==
    (last.op = "request" /\ lowerPath(last.path) = last.path
        /\ mountMatches(last.path, P_users)) =>
        IF last.path = P_users_login
        THEN last.counted = {"login"}
        ELSE last.counted = {"users"}

\* C9 amended: a request whose path after the /users mount is exactly /login
\* increments the login window only; a users-prefixed request the login
\* mount does not match increments the users window only; a request the
\* login mount matches whose path after /users is not exactly /login
\* (trailing slash, sub-path, other letter case of login) increments the
\* login window and, unless the login limiter rejects it, the users window.
C9_LoginMountCounts ==
    (last.op = "request" /\ lowerPath(SubSeq(last.path, 1, 6)) = P_users
        /\ (Len(last.path) = 6 \/ last.path[7] = "/")) =>
        LET rest == SubSeq(last.path, 7, Len(last.path))
            underLogin == /\ Len(rest) >= 6
                          /\ lowerPath(SubSeq(rest, 1, 6)) = P_login
                          /\ (Len(rest) = 6 \/ rest[7] = "/")
        IN  IF rest = P_login THEN last.counted = {"login"}
            ELSE IF ~underLogin THEN last.counted = {"users"}
            ELSE last.counted =
                    IF last.status = 429 /\ last.limiter = "login"
                    THEN {"login"} ELSE {"login", "users"}

C9_Witness ==
    /\ last.op = "request" /\ last.path = P_users_login_slash
    /\ last.counted = {"login", "users"}
    /\ windows["login"][last.client].totalHits = 2
    /\ windows["users"][last.client].totalHits = 1

\* C10 as claimed: a 429 carries the retry-after duration, the ceiling in
\* seconds of the milliseconds left in the window and at most the window in
\* seconds, in the Retry-After header and in a field of the JSON body.
C10_RetryAfterInHeaderAndBody ==
    (last.op = "request" /\ last.status = 429) =>
        LET s == last.limiter
            left == windows[s][last.client].resetTime - now
        IN  /\ last.retryAfterHeader = (left + 999) \div 1000
            /\ last.retryAfterHeader <= (ScopeWindowMs[s] + 999) \div 1000
            /\ last.bodyRetryAfterSeconds = last.retryAfterHeader

\* C10 amended: a 429 carries the retry-after duration (the ceiling in
\* seconds of the milliseconds left in the window, at least 1 and at most the
\* window in seconds) in the Retry-After header only; the JSON body carries
\* the code RATE_LIMITED, the limiter scope and the request id, and no
\* retry-after field.
C10_RetryAfterInHeaderOnly ==
    (last.op = "request" /\ last.status = 429) =>
        LET s == last.limiter
            left == windows[s][last.client].resetTime - now
        IN  /\ s \in Scopes
            /\ last.retryAfterHeader = (left + 999) \div 1000
            /\ last.retryAfterHeader >= 1
            /\ last.retryAfterHeader <= (ScopeWindowMs[s] + 999) \div 1000
            /\ last.bodyRetryAfterSeconds = NoField
            /\ last.code = "RATE_LIMITED"
            /\ last.bodyRequestId = last.requestId
            /\ last.requestId # <<>>

C10_Witness ==
    /\ last.op = "request" /\ last.status = 429 /\ last.limiter = "users"
    /\ windows["users"][last.client].resetTime - now = 500
    /\ last.retryAfterHeader = 1
    /\ last.bodyRetryAfterSeconds = NoField

-----------------------------------------------------------------------------
(* SpecAuth: authentication and identity headers, for one client sending   *)
(* every combination of a token and client-supplied identity headers.      *)

AuthScenarios ==
    {[paths |-> {path}, clients |-> {"10.0.0.1"}, traffic |-> "any-token",
      ticks |-> AuthTicks, pending |-> AuthInflight,
      statuses |-> {200}, errors |-> {"socket hang up"}, throws |-> {NoThrow}] :
        path \in {P_users_login, P_users_7, P_Users_7, P_notes_7, P_health, P_other}}

InitAuth == scenario \in AuthScenarios /\ Start

SpecAuth == InitAuth /\ [][Next]_vars

\* The request's bearer token passed verification: valid signature, not
\* expired, a non-empty string subject.
TokenVerified(headers, t) ==
    /\ headers.authorization.scheme = "Bearer "
    /\ LET token == headers.authorization.token
       IN  /\ token.parts = 3
           /\ token.alg \in {"HS256", "HS384", "HS512"}
           /\ token.sig = createHmac(token.alg, jwtSecret,
                                      <<token.alg, token.payload>>)
           /\ (token.payload.exp = NoExp \/ t \div 1000 < token.payload.exp)
           /\ token.payload.isObject
           /\ token.payload.sub \notin {Absent, NonString, ""}

\* The signature is not the HMAC of header and payload under the secret.
BadSignature(token) ==
    token.sig # createHmac(token.alg, jwtSecret, <<token.alg, token.payload>>)

\* C5 (on lower-case paths): a client-supplied x-user-id or x-user-role never
\* reaches the upstream intact, on any route, login included, unless it equals
\* the identity of a token the gateway verified for that request.
C5_NoClientIdentityReachesUpstream ==
    (last.op = "request" /\ last.forwarded /\ lowerPath(last.path) = last.path) =>
        /\ (last.headers.xUserRole # NoHeader
              /\ last.fwd.xUserRole = last.headers.xUserRole)
           => (/\ TokenVerified(last.headers, now)
               /\ last.headers.xUserRole =
                     IF last.headers.authorization.token.payload.role = "admin"
                     THEN "admin" ELSE "user")
        /\ (last.headers.xUserId # NoHeader
              /\ last.fwd.xUserId = last.headers.xUserId)
           => (/\ TokenVerified(last.headers, now)
               /\ last.headers.xUserId =
                     last.headers.authorization.token.payload.sub)

\* C6: every forwarded request other than one to exactly /users/login
\* carried a bearer token that passed verification, and a users- or
\* notes-scoped request without one is never forwarded and is answered 401
\* (or 429 / 503 by an earlier stage).
C6_ForwardedOnlyWithVerifiedToken ==
    last.op = "request" =>
        /\ (last.forwarded /\ last.path # P_users_login)
           => TokenVerified(last.headers, now)
        /\ (last.target # "none" /\ last.path # P_users_login
              /\ ~TokenVerified(last.headers, now))
           => (~last.forwarded /\ last.status \in {401, 429, 503})

\* C7: on every request the auth middleware handles (a users or notes route
\* other than login), a token whose signature is not the HMAC of its header
\* and payload under the secret is rejected whatever its payload says: the
\* request is never forwarded, no identity is taken from it, and the answer
\* is 401 UNAUTHORIZED unless an earlier stage answered 429 or 503; the notes
\* service's verifier returns no requester for it either.
C7_BadSignatureRejected ==
    (/\ last.op = "request"
     /\ last.headers.authorization.scheme = "Bearer "
     /\ BadSignature(last.headers.authorization.token)) =>
        /\ ~getRequester(last.headers).ok
        /\ ~verifyJwtPayload(last.headers.authorization.token, jwtSecret).ok
        /\ ((startsWith(last.path, P_users) \/ startsWith(last.path, P_notes))
              /\ last.path # P_users_login)
           => /\ ~last.forwarded
              /\ ~last.verified
              /\ last.status \in {401, 429, 503}
              /\ last.status \notin {429, 503}
                    => (last.status = 401 /\ last.code = "UNAUTHORIZED")

C7_Witness ==
    /\ last.op = "request" /\ last.path = P_notes_7
    /\ last.headers.authorization.scheme = "Bearer "
    /\ BadSignature(last.headers.authorization.token)
    /\ last.headers.authorization.token.payload = AdminClaims
    /\ last.headers.authorization.token.sig.key = jwtSecret
    /\ last.status = 401

\* Why the gateway does not accept the credentials of a request.
FailureReason(headers, t) ==
    LET a == headers.authorization
        token == a.token
    IN  IF a.scheme = "" THEN "missing header"
        ELSE IF a.scheme # "Bearer " THEN "not a bearer scheme"
        ELSE IF token.parts # 3 THEN "malformed token"
        ELSE IF BadSignature(token) \/ token.alg \notin {"HS256", "HS384", "HS512"}
             THEN "bad signature"
        ELSE IF token.payload.exp # NoExp /\ t \div 1000 >= token.payload.exp
             THEN "expired"
        ELSE IF ~token.payload.isObject THEN "payload is not an object"
        ELSE IF token.payload.sub \in {Absent, NonString, ""} THEN "missing subject"
        ELSE "none"

FailureReasons ==
    {"missing header", "not a bearer scheme", "malformed token", "bad signature",
     "expired", "missing subject"}

\* C17: every 401 of the gateway is the same response whatever made
\* verification fail (missing header, non-Bearer scheme, malformed token, bad
\* signature, expired token, missing subject): status 401, code UNAUTHORIZED,
\* message 'Unauthorized', no other field but the requestId; and every other
\* rejected credential on the same path at the same time would have been
\* answered with that same response.
C17_UniformUnauthorized ==
    (last.op = "request" /\ last.status = 401) =>
        /\ FailureReason(last.headers, now) # "none"
        /\ last.code = "UNAUTHORIZED" /\ last.message = "Unauthorized"
        /\ last.limiter = "" /\ last.service = ""
        /\ last.retryAfterHeader = NoField
        /\ last.bodyRetryAfterSeconds = NoField
        /\ ~last.forwarded /\ ~last.relayed
        /\ last.bodyRequestId = last.requestId
        /\ \A reason \in FailureReasons \ {"expired"} :
              \E h \in AuthHeaders : FailureReason(h, now) = reason
        /\ \A h \in AuthHeaders :
              LET a == authMiddleware(last.path, h, now)
              IN  /\ ~a.next <=> FailureReason(h, now) # "none"
                  /\ ~a.next =>
                        LET r == errorHandler(a.err, last.requestId)
                        IN  /\ r.status = last.status /\ r.code = last.code
                            /\ r.message = last.message
                            /\ r.requestId = last.bodyRequestId

C17_Witness ==
    /\ last.op = "request" /\ last.status = 401
    /\ FailureReason(last.headers, now) = "expired"
    /\ last.code = "UNAUTHORIZED" /\ last.message = "Unauthorized"

\* C18: the role derived from a verified token is admin exactly when its
\* role claim is the string "admin" and user for every other value (absent,
\* another letter case, not a string): in the x-user-role header the gateway
\* forwards, and in the requester the notes service and the user service
\* compute from the same Authorization header.
C18_AdminOnlyForExactClaim ==
    last.op = "request" =>
        LET claim == last.headers.authorization.token.payload.role
            expected == IF claim = "admin" THEN "admin" ELSE "user"
            notes == getRequester(last.headers)
            users == getRequesterFromAuthorizationHeader(last.headers.authorization, now)
        IN  /\ (last.forwarded /\ last.verified)
               => /\ last.fwd.xUserRole = expected
                  /\ last.fwd.xUserRole = "admin" <=> claim = "admin"
            /\ notes.ok => notes.requesterRole = expected
            /\ users.ok => users.requesterRole = expected

C18_Witness ==
    /\ last.op = "request" /\ last.forwarded /\ last.verified
    /\ last.headers.authorization.token.payload.role = "Admin"
    /\ last.fwd.xUserRole = "user"
    /\ getRequester(last.headers).ok
    /\ getRequester(last.headers).requesterRole = "user"
    /\ getRequesterFromAuthorizationHeader(last.headers.authorization, now).ok

-----------------------------------------------------------------------------
(* SpecIds: the request id, for one client sending every inbound           *)
(* x-request-id value with and without a valid token, to a users path, a   *)
(* notes path and a path no route matches.                                 *)

IdScenarios ==
    {[paths |-> {path}, clients |-> {"10.0.0.1"}, traffic |-> "request-ids",
      ticks |-> AuthTicks, pending |-> AuthInflight,
      statuses |-> {200}, errors |-> {"socket hang up"},
      throws |-> {NoThrow, "Cannot read properties of undefined"}] :
        path \in {P_users_7, P_notes_7, P_other}}

InitIds == scenario \in IdScenarios /\ Start

SpecIds == InitIds /\ [][Next]_vars

\* The positions of the characters of a header value that are not white space.
Inked(value) == {i \in 1..Len(value) : value[i] \notin WhiteSpace}

\* The value without the white space around it.
Trimmed(value) ==
    LET first == CHOOSE i \in Inked(value) : \A j \in Inked(value) : i <= j
        final == CHOOSE i \in Inked(value) : \A j \in Inked(value) : i >= j
    IN  IF Inked(value) = {} THEN <<>> ELSE SubSeq(value, first, final)

\* The id is on the request context, the request header and the response
\* header, and on the forwarded request when there is one.
IdSetEverywhere ==
    /\ last.requestId # <<>>
    /\ last.reqXRequestId = last.requestId
    /\ last.resXRequestId = last.requestId
    /\ last.forwarded => last.fwd.xRequestId = last.requestId
    /\ last.status # 0 \/ last.forwarded

\* C19 as claimed: an inbound x-request-id that is non-empty after trimming
\* is reused verbatim as the correlation id, otherwise a fresh identifier is
\* generated; the id is never empty and is set on the response header, the
\* request header and the request context.
C19_InboundIdReusedVerbatim ==
    last.op = "request" =>
        /\ IF Inked(last.headers.xRequestId) # {}
           THEN last.requestId = last.headers.xRequestId
           ELSE last.requestId = randomUUID
        /\ IdSetEverywhere

\* C19 amended: an inbound x-request-id that is non-empty after trimming is
\* reused with the white space around it removed (verbatim when it has
\* none), otherwise a fresh identifier is generated; no request is rejected
\* by the stamper, and the id is never empty and is set on the response
\* header, the request header and the request context.
C19_InboundIdReusedTrimmed ==
    last.op = "request" =>
        /\ IF Inked(last.headers.xRequestId) # {}
           THEN last.requestId = Trimmed(last.headers.xRequestId)
           ELSE last.requestId = randomUUID
        /\ (Inked(last.headers.xRequestId) # {}
              /\ Trimmed(last.headers.xRequestId) = last.headers.xRequestId)
           => last.requestId = last.headers.xRequestId
        /\ IdSetEverywhere

C19_Witness ==
    /\ last.op = "request" /\ last.forwarded
    /\ last.headers.xRequestId = <<"nbsp", "a", "b", "c", "nbsp">>
    /\ last.requestId = <<"a", "b", "c">>
    /\ last.fwd.xRequestId = <<"a", "b", "c">>
    /\ last.resXRequestId = <<"a", "b", "c">>

FailureStatuses == {401, 404, 429, 500, 502, 503}

\* C20: every failure response the gateway writes itself (401, 404, 429,
\* 500, 502, 503; not an upstream response it relays) is an envelope with an
\* error code, a message and a requestId equal to the id the stamper gave that
\* request, which is also the response's x-request-id header: for a response
\* of the middleware chain the id computed from the request's own header, for
\* a 502 the id of the pending call that failed; never 'n/a' and never empty.
C20_FailureEnvelopeCarriesId ==
    [][(last'.status \in FailureStatuses /\ ~last'.relayed) =>
        /\ last'.code # "" /\ last'.message # ""
        /\ last'.bodyRequestId = last'.resXRequestId
        /\ last'.bodyRequestId \notin {NotAvailable, NoRequestId}
        /\ last'.op \in {"request", "proxyError"}
        /\ last'.op = "request"
           => /\ last'.bodyRequestId =
                    IF Inked(last'.headers.xRequestId) # {}
                    THEN Trimmed(last'.headers.xRequestId) ELSE randomUUID
              /\ \A m \in UpstreamErrors :
                    LET r == errorHandler(OtherError(m), last'.requestId)
                    IN  /\ r.status = 500 /\ r.code = "INTERNAL_ERROR"
                        /\ r.requestId = last'.bodyRequestId
        /\ last'.op = "proxyError"
           => \E i \in 1..Len(inflight) :
                 /\ inflight' = RemoveAt(inflight, i)
                 /\ last'.bodyRequestId = inflight[i].requestId]_vars

C20_Witness ==
    /\ last.op = "proxyError" /\ last.status = 502
    /\ last.code = "UPSTREAM_ERROR"
    /\ last.bodyRequestId = <<"a", "b", "c">>
    /\ last.resXRequestId = <<"a", "b", "c">>

-----------------------------------------------------------------------------
(* Unclassified errors *)

\* C21: an error that is not an AppError (here an exception raised while
\* proxying) is answered with status 500, code INTERNAL_ERROR and the generic
\* message 'Internal server error'; the error's own message goes to the log
\* only and is no part of the response; the handler answers and returns, so
\* the breakers and the pending calls are as before and the gateway keeps
\* serving.  No other response the gateway writes has status 500.
C21_UnclassifiedErrorIs500 ==
    [][/\ (last'.op = "request" /\ last'.stage = "proxy" /\ ~last'.forwarded)
          => /\ last'.status = 500 /\ last'.code = "INTERNAL_ERROR"
             /\ last'.message = "Internal server error"
             /\ last'.logged \in scenario.throws \ {NoThrow}
             /\ last'.message # last'.logged
             /\ last'.bodyRequestId = last'.requestId
             /\ breaker' = breaker /\ inflight' = inflight
       /\ (last'.status = 500 /\ ~last'.relayed)
          => (last'.op = "request" /\ last'.stage = "proxy")
       /\ \A m \in scenario.throws \ {NoThrow} :
             LET r == errorHandler(OtherError(m), last'.requestId)
             IN  /\ r.status = 500 /\ r.code = "INTERNAL_ERROR"
                 /\ r.message = "Internal server error" /\ r.logged = m]_vars

C21_Witness ==
    /\ last.op = "request" /\ last.status = 500
    /\ last.code = "INTERNAL_ERROR"
    /\ last.message = "Internal server error"
    /\ last.logged = "Cannot read properties of undefined"
    /\ last.headers.xRequestId = <<"nbsp", "a", "b", "c", "nbsp">>
    /\ last.bodyRequestId = <<"a", "b", "c">>

-----------------------------------------------------------------------------
(* Upstream attempts *)

\* C22: each client request causes at most one upstream attempt.  A step
\* starts an upstream call only when it is a client request passing the
\* proxy, and then exactly one call, for that request; recording an outcome
\* (a response, a connection error or a timeout) ends that call and starts
\* none; and once the breaker of an upstream has opened, a call to it is
\* started only by a client request arriving when openUntil has passed, the
\* recovery probe.
C22_OneAttemptPerRequest ==
    [][/\ Len(inflight') <= Len(inflight) + 1
       /\ Len(inflight') > Len(inflight)
          <=> (last'.op = "request" /\ last'.forwarded)
       /\ (last'.op = "request" /\ last'.forwarded)
          => /\ Len(inflight') = Len(inflight) + 1
             /\ \A i \in 1..Len(inflight) : inflight'[i] = inflight[i]
             /\ inflight'[Len(inflight')].target = last'.target
             /\ inflight'[Len(inflight')].requestId = last'.requestId
             /\ breaker[last'.target].openedAt # NoTime
                => /\ last'.probe
                   /\ now >= breaker[last'.target].openUntil
       /\ last'.op \in {"proxyRes", "proxyError"}
          => \E i \in 1..Len(inflight) :
                /\ inflight' = RemoveAt(inflight, i)
                /\ inflight[i].target = last'.target
       /\ last'.op = "tick" => inflight' = inflight]_vars

\* A recovery probe is forwarded after a call to the same upstream failed
\* and opened the breaker.
C22_Witness ==
    /\ last.op = "request" /\ last.forwarded /\ last.probe
    /\ last.target = "user_service"
    /\ breaker.user_service.openedAt # NoTime
    /\ now >= breaker.user_service.openUntil
    /\ Len(inflight) = 1

-----------------------------------------------------------------------------
(* Late outcomes *)

\* C23: while a breaker is open (from the open transition until
\* circuitBreakerOpenMs later) the outcome of a call that was already pending
\* when it opened, success or failure, leaves the breaker as it is: still
\* open, with the same openUntil, so that no request is forwarded before the
\* cooldown has passed.
C23_LateOutcomeKeepsBreakerOpen ==
    [][\A u \in Upstreams :
          (/\ now < breaker[u].openUntil
           /\ last'.op \in {"proxyRes", "proxyError"}
           /\ last'.target = u)
          => /\ breaker'[u].openUntil = breaker[u].openUntil
             /\ breaker'[u].openedAt = breaker[u].openedAt
             /\ isCircuitOpen(breaker'[u], now')]_vars

-----------------------------------------------------------------------------
(* Order of the stages *)

\* C24: the stages run in the order stamper, rate limiter, circuit check,
\* token verifier, proxy, and a rejection ends the chain.  Every request is
\* stamped; a request its limiter rejects is answered 429 whatever the breaker
\* and the token are, and is neither verified nor forwarded; a request the
\* limiter admits to an upstream whose breaker is open is answered 503
\* CIRCUIT_OPEN whatever its token is (none, invalid or valid), after being
\* counted by the limiter, and is neither verified nor forwarded; a 401 is
\* given only to a request the limiter admitted and the circuit check passed,
\* is not forwarded and leaves the breakers unchanged; a forwarded request
\* passed all of them.
C24_StageOrder ==
    [][last'.op = "request" =>
        \A lim \in {runLimiters(windows, last'.path, last'.client, now)},
           t \in {targetOf(last'.path)},
           auth \in {authMiddleware(last'.path, last'.headers, now)} :
        LET open == t # "none" /\ isCircuitOpen(breaker[t], now)
        IN  /\ last'.resXRequestId = stampRequestId(last'.headers)
            /\ last'.counted = lim.counted
            /\ breaker' = breaker
            /\ lim.rejectedBy # ""
               => /\ last'.status = 429 /\ last'.code = "RATE_LIMITED"
                  /\ ~last'.verified /\ ~last'.forwarded
                  /\ inflight' = inflight
            /\ (lim.rejectedBy = "" /\ open)
               => /\ last'.status = 503 /\ last'.code = "CIRCUIT_OPEN"
                  /\ last'.counted # {}
                  /\ ~last'.verified /\ ~last'.forwarded
                  /\ inflight' = inflight
            /\ (lim.rejectedBy = "" /\ ~open /\ ~auth.next)
               => /\ last'.status = 401 /\ last'.code = "UNAUTHORIZED"
                  /\ ~last'.forwarded /\ inflight' = inflight
            /\ last'.status = 401
               => (lim.rejectedBy = "" /\ ~open /\ ~auth.next)
            /\ last'.forwarded
               => (lim.rejectedBy = "" /\ ~open /\ auth.next)]_vars

\* An open breaker answers a request that carries no token at all.
C24_Witness ==
    /\ last.op = "request" /\ last.status = 503 /\ last.code = "CIRCUIT_OPEN"
    /\ last.path = P_users_7
    /\ last.headers.authorization = NoAuthorization
    /\ ~authMiddleware(last.path, last.headers, now).next
    /\ last.counted # {}

-----------------------------------------------------------------------------
(* Identity headers on the authenticated path *)

\* The x-user-* headers of a header record.
IdentityOf(headers) ==
    <<headers.xUserId, headers.xUserEmail, headers.xUserRole>>

\* C25: for a request forwarded with a verified token, the x-user-id,
\* x-user-email and x-user-role headers the upstream receives are computed
\* from the token's claims alone: sub, the email claim (empty when the token
\* has none) and admin or user; the same token sent with any other
\* client-supplied x-user-* headers is forwarded with the same three headers.
C25_IdentityFromTokenOnly ==
    (last.op = "request" /\ last.forwarded /\ last.verified) =>
        LET payload == last.headers.authorization.token.payload
        IN  /\ last.fwd.xUserId = payload.sub
            /\ last.fwd.xUserEmail =
                  IF payload.email \in {Absent, NonString} THEN "" ELSE payload.email
            /\ last.fwd.xUserRole = IF payload.role = "admin" THEN "admin" ELSE "user"
            /\ \A id \in {"admin-1", NoHeader}, email \in {"root@example.com", NoHeader},
                  role \in {"admin", "user", NoHeader} :
                  LET other == [last.headers EXCEPT !.xUserId = id,
                                    !.xUserEmail = email, !.xUserRole = role]
                      a == authMiddleware(last.path, other, now)
                  IN  /\ a.next /\ a.verified
                      /\ IdentityOf(proxyReqHeaders(a.headers)) = IdentityOf(last.fwd)

\* A user's token without an email claim, sent with an administrator's
\* identity headers.
C25_Witness ==
    /\ last.op = "request" /\ last.forwarded /\ last.verified
    /\ last.headers.authorization = bearer(signToken(UserClaims, jwtSecret, "HS256"))
    /\ IdentityOf(last.headers) = <<"admin-1", "root@example.com", "admin">>
    /\ IdentityOf(last.fwd) = <<"u1", "", "user">>

-----------------------------------------------------------------------------
(* The breaker record *)

\* C26: in every reachable state the failure counter of each breaker is at
\* least 0 and below the threshold, and it is 0 whenever the breaker is open
\* (now < openUntil), and more generally from an open transition until the
\* next success (openedAt set): opening and success both reset it.
C26_CounterBelowThreshold ==
    \A u \in Upstreams :
        /\ breaker[u].consecutiveFailures >= 0
        /\ breaker[u].consecutiveFailures < circuitBreakerFailureThreshold
        /\ isCircuitOpen(breaker[u], now) => breaker[u].consecutiveFailures = 0
        /\ breaker[u].openedAt # NoTime => breaker[u].consecutiveFailures = 0
        /\ (last.op = "proxyRes" /\ last.outcome = "success" /\ last.target = u)
           => breaker[u].consecutiveFailures = 0

\* The breaker has just opened on the failure that reached the threshold.
C26_Witness ==
    /\ last.op \in {"proxyRes", "proxyError"}
    /\ last.branch = "failure_threshold_reached"
    /\ last.seen = circuitBreakerFailureThreshold - 1
    /\ isCircuitOpen(breaker[last.target], now)
    /\ breaker[last.target].consecutiveFailures = 0

\* C27 as stated: openedAt is absent when the breaker never opened or is
\* closed (openUntil not in the future), and is the time of the open
\* transition while it is open.
C27_OpenedAtAbsentWhenClosed ==
    \A u \in Upstreams :
        IF isCircuitOpen(breaker[u], now)
        THEN breaker[u].openedAt = breaker[u].openUntil - circuitBreakerOpenMs
        ELSE breaker[u].openedAt = NoTime

\* C27, as the code has it: openedAt is absent exactly when the breaker has
\* never opened or a success has been recorded since it last opened;
\* otherwise it is the time of the last open transition, and stays so after
\* openUntil has passed, until the next success.  It changes only in an open
\* transition, to the current time, and in a success, to absent.
C27_OpenedAtUntilSuccess ==
    [][\A u \in Upstreams :
          LET b == breaker[u]
              c == breaker'[u]
              opens == c.openUntil # b.openUntil /\ c.openUntil # 0
          IN  /\ c.openedAt = NoTime <=> streak'[u] < circuitBreakerFailureThreshold
              /\ c.openedAt = NoTime => c.openUntil = 0
              /\ c.openedAt # NoTime
                 => /\ c.openUntil = c.openedAt + circuitBreakerOpenMs
                    /\ c.openedAt <= now'
              /\ opens
                 => /\ c.openedAt = now
                    /\ last'.outcome = "failure" /\ last'.target = u
                    /\ last'.branch \in {"failure_threshold_reached",
                                         "recovery_probe_failed"}
              /\ (last'.target = u /\ last'.branch \in {"failure_threshold_reached",
                                                       "recovery_probe_failed"})
                 => c.openedAt = now
              /\ (last'.outcome = "success" /\ last'.target = u)
                 => c.openedAt = NoTime
              /\ c.openedAt # b.openedAt
                 => (opens \/ (last'.outcome = "success" /\ last'.target = u))]_vars

\* The open period is over and no success has been recorded yet: the breaker
\* is closed and openedAt still holds the time it opened.
C27_Witness ==
    /\ last.op = "tick"
    /\ breaker.user_service.openedAt = 0
    /\ ~isCircuitOpen(breaker.user_service, now)
    /\ now >= breaker.user_service.openUntil

-----------------------------------------------------------------------------
(* SpecServices: the verifiers of the two services, applied to the         *)
(* Authorization header of a request that reaches the service, at          *)
(* different times.                                                        *)

\* The credentials sent to the gateway and, in addition: a header segment
\* that is not JSON, a header without alg, a signature cut short, and the
\* signature of another HMAC algorithm under a header that says HS256.
ServiceTokens ==
    AuthTokens \cup
    {[signToken(UserClaims, jwtSecret, "HS256") EXCEPT !.headerJson = FALSE,
                                                        !.alg = Absent],
     [signToken(UserClaims, jwtSecret, "HS256") EXCEPT !.alg = Absent],
     [signToken(AdminClaims, jwtSecret, "HS256") EXCEPT !.sig.len = 42],
     [signToken(AdminClaims, jwtSecret, "HS384") EXCEPT !.alg = "HS256"]}

ServiceHeaders ==
    {[NoHeaders EXCEPT !.authorization = a] :
        a \in {NoAuthorization,
               [scheme |-> "Basic ", token |-> signToken(AdminClaims, jwtSecret, "HS256")]}
              \cup {bearer(t) : t \in ServiceTokens}}

\* A request reaches a route handler of a service, which asks its verifier
\* for the requester: notes_service getRequester(req) (noteRoutes.ts 48-68),
\* user_service getRequesterFromAuthorizationHeader(req.headers.authorization)
\* (auth/jwt.ts 23-49).  step is the check verifyJwtPayload stopped at.
ServiceRequest(service, headers) ==
    /\ LET r == IF service = "notes_service" THEN getRequester(headers)
                ELSE getRequesterFromAuthorizationHeader(headers.authorization, now)
           v == verifyJwtPayload(headers.authorization.token, jwtSecret)
           checked == service = "notes_service"
                         /\ headers.authorization.scheme = "Bearer "
       IN  last' = [NoEvent EXCEPT
                      !.op = "service", !.service = service,
                      !.headers = headers, !.verified = r.ok,
                      !.step = IF checked THEN v.step ELSE "",
                      !.thrown = IF checked THEN v.thrown ELSE FALSE,
                      !.requesterId = IF r.ok THEN r.requesterId ELSE "",
                      !.requesterRole = IF r.ok THEN r.requesterRole ELSE ""]
    /\ UNCHANGED <<scenario, now, breaker, windows, inflight, streak, noteDocs>>

ServiceTicks == 3

ServiceScenarios ==
    {[paths |-> {}, clients |-> {}, traffic |-> "service-tokens",
      ticks |-> ServiceTicks, pending |-> 0,
      statuses |-> {}, errors |-> {}, throws |-> {NoThrow}]}

InitServices == scenario \in ServiceScenarios /\ Start

NextServices ==
    \/ \E service \in Upstreams, headers \in ServiceHeaders :
          ServiceRequest(service, headers)
    \/ Tick

SpecServices == InitServices /\ [][NextServices]_vars

\* The signature a token carries is the HMAC-SHA256 of its header and
\* payload under the secret, in length and in bytes.
SignatureMatches(token) ==
    /\ token.sig.len = digestLength("HS256")
    /\ token.sig = createHmac("HS256", jwtSecret, <<token.alg, token.payload>>)

\* C28: verifyJwtPayload of the notes service returns a payload exactly for
\* a token of three segments whose header declares HS256 and whose signature
\* equals the HMAC-SHA256 of header.payload under the secret, in length and
\* in bytes (and whose payload decodes); the checks run in that order, so
\* the check it stops at is the first that fails: segments, header, alg,
\* signature length, signature bytes, and the payload is decoded only when
\* all of them passed; a header or payload that does not decode is caught
\* and gives null like every other failure, never an exception.
C28_NotesVerifierChecks ==
    (last.op = "service" /\ last.service = "notes_service"
        /\ last.headers.authorization.scheme = "Bearer ") =>
        LET token == last.headers.authorization.token
            r == verifyJwtPayload(token, jwtSecret)
            first == IF token.parts # 3 THEN "segments"
                     ELSE IF ~token.headerJson THEN "header"
                     ELSE IF token.alg # "HS256" THEN "alg"
                     ELSE IF token.sig.len # digestLength("HS256") THEN "length"
                     ELSE IF ~SignatureMatches(token) THEN "signature"
                     ELSE IF ~token.payload.isObject THEN "payload"
                     ELSE "done"
        IN  /\ last.step = first /\ r.step = first
            /\ ~last.thrown /\ ~r.thrown
            /\ r.ok <=> first = "done"
            /\ r.ok => /\ r.payload = token.payload
                       /\ token.parts = 3 /\ token.alg = "HS256"
                       /\ SignatureMatches(token)
            /\ last.step \in {"payload", "done"} => SignatureMatches(token)
            /\ last.verified => r.ok

\* A user's HS256 token under the secret is accepted by the notes service.
C28_Witness ==
    /\ last.op = "service" /\ last.service = "notes_service"
    /\ last.headers.authorization = bearer(signToken(UserClaims, jwtSecret, "HS256"))
    /\ last.step = "done" /\ last.verified
    /\ last.requesterId = "u1" /\ last.requesterRole = "user"

\* Expired at time t: the exp claim, in seconds, is not in the future.
Expired(token, t) == token.payload.exp # NoExp /\ t \div 1000 >= token.payload.exp

\* C30: a bearer token whose expiry has passed is never accepted: the
\* gateway's auth middleware rejects it on a protected route and neither
\* service's verifier returns a requester for it.
C30_ExpiredNeverAccepted ==
    (last.op = "service" /\ last.headers.authorization.scheme = "Bearer "
        /\ Expired(last.headers.authorization.token, now)) =>
        /\ ~authMiddleware(P_notes_7, last.headers, now).next
        /\ ~getRequesterFromAuthorizationHeader(last.headers.authorization, now).ok
        /\ ~last.verified

-----------------------------------------------------------------------------
(* Accepted algorithms *)

\* C29: HS256 is the one algorithm accepted: a request to a protected route
\* whose bearer token declares any other algorithm is not verified by the
\* gateway (it is answered 401, or 429 / 503 by an earlier stage) and the
\* notes service's verifier rejects the same token, so both verifiers accept
\* the same algorithms.
C29_OnlyHS256Accepted ==
    (/\ last.op = "request"
     /\ last.path \in {P_users_7, P_notes_7}
     /\ last.headers.authorization.scheme = "Bearer "
     /\ last.headers.authorization.token.alg # "HS256")
    => /\ ~last.verified /\ ~last.forwarded
       /\ last.status \in {401, 429, 503}
       /\ ~getRequester(last.headers).ok
       /\ ~authMiddleware(last.path, last.headers, now).next

-----------------------------------------------------------------------------
(* SpecPair: one client sending authenticated requests to both upstreams   *)
(* in the same run, each of which may answer or fail.                      *)

PairTicks == 1
PairInflight == 1

PairScenarios ==
    {[paths |-> {P_users_7, P_notes_7}, clients |-> {"10.0.0.1"},
      traffic |-> "user-token", ticks |-> PairTicks, pending |-> PairInflight,
      statuses |-> {200, 500}, errors |-> {"socket hang up"},
      throws |-> {NoThrow}]}

InitPair == scenario \in PairScenarios /\ Start

SpecPair == InitPair /\ [][Next]_vars

\* C31: the two breakers are independent.  Recording an outcome of a call to
\* one upstream leaves the breaker of the other as it was; a 503 CIRCUIT_OPEN
\* is given only when the breaker of the request's own upstream is open; and a
\* request its limiter admitted to an upstream whose breaker is not open is
\* forwarded whatever the state of the other breaker.
C31_BreakersIndependent ==
    [][\A u \in Upstreams :
          /\ (last'.op \in {"proxyRes", "proxyError"} /\ last'.target # u)
             => breaker'[u] = breaker[u]
          /\ (last'.op = "request" /\ last'.target = u)
             => /\ last'.status = 503 => isCircuitOpen(breaker[u], now)
                /\ (last'.status # 429 /\ ~isCircuitOpen(breaker[u], now))
                   => last'.forwarded
                /\ breaker' = breaker]_vars

\* A notes request is forwarded while the user_service breaker is open.
C31_Witness ==
    /\ last.op = "request" /\ last.forwarded
    /\ last.target = "notes_service"
    /\ isCircuitOpen(breaker.user_service, now)
    /\ ~isCircuitOpen(breaker.notes_service, now)

-----------------------------------------------------------------------------
(* SpecLive: an upstream that fails and then recovers, with time that      *)
(* keeps passing, requests that keep arriving and calls that get an        *)
(* answer.                                                                 *)

LiveTicks == 5

LiveScenarios ==
    {[paths |-> {path}, clients |-> {"10.0.0.1"}, traffic |-> "user-token",
      ticks |-> LiveTicks, pending |-> 1,
      statuses |-> {200, 500}, errors |-> {"socket hang up"},
      throws |-> {NoThrow}] :
        path \in {P_users_7, P_notes_7}}

\* The upstream is up again (the demo script's docker compose start): from
\* now on every call is answered, with a status below 500.
Recovered == scenario.errors = {} /\ \A s \in scenario.statuses : s < 500

Recover ==
    /\ ~Recovered
    /\ scenario' = [scenario EXCEPT !.statuses = {200}, !.errors = {}]
    /\ last' = [NoEvent EXCEPT !.op = "recover"]
    /\ UNCHANGED <<now, breaker, windows, inflight, streak, noteDocs>>

InitLive == scenario \in LiveScenarios /\ Start

NextLive == Next \/ Recover

\* The clock advances; clients keep sending requests; every call to the
\* upstream gets an outcome (an answer, or the error the proxy raises after
\* upstreamTimeoutMs).
SpecLive ==
    /\ InitLive /\ [][NextLive]_vars
    /\ WF_vars(Tick)
    /\ SF_vars(\E path \in scenario.paths, client \in scenario.clients,
                  headers \in headersOf(scenario.traffic) :
                     Arrive(path, client, headers, NoThrow))
    /\ WF_vars(\E i \in 1..MaxInflight, statusCode \in scenario.statuses :
                  ProxyRes(i, statusCode))

\* The last time of a run.
EndOfRun == scenario.ticks * TickMs

\* The longest rate-limit window.
LongestWindowMs ==
    IF usersRateLimitWindowMs >= notesRateLimitWindowMs
    THEN usersRateLimitWindowMs ELSE notesRateLimitWindowMs

\* C32: an open breaker does not stay open for ever.  A request the limiter
\* admits once time has reached openUntil is forwarded; and when the
\* upstream has recovered, time keeps passing and requests keep arriving, an
\* open breaker (whose openUntil and one limiter window after it lie within
\* the run) is eventually fully closed: openUntil = 0, openedAt absent and
\* consecutiveFailures = 0.
C32_OpenEventuallyCloses ==
    /\ [][\A u \in Upstreams :
             (last'.op = "request" /\ last'.target = u
                 /\ now >= breaker[u].openUntil /\ last'.status # 429)
             => last'.forwarded]_vars
    /\ \A u \in Upstreams :
          (/\ Recovered
           /\ isCircuitOpen(breaker[u], now)
           /\ breaker[u].openUntil + LongestWindowMs <= EndOfRun)
          ~> (breaker[u] = createCircuitBreaker(u))

\* The recovery probe was answered by the recovered upstream and closed the
\* breaker.
C32_Witness ==
    /\ Recovered
    /\ last.op = "proxyRes" /\ last.probe /\ last.outcome = "success"
    /\ now >= circuitBreakerOpenMs
    /\ breaker[last.target] = createCircuitBreaker(last.target)

-----------------------------------------------------------------------------
(* Rate-limit windows: independence, expiry, quota *)

\* C33: the windows are independent per (scope, client).  A request changes
\* only the windows of the scopes that counted it, for its own client: each
\* by one hit, or to a new window with one hit; every other window is as it
\* was.  A request is rejected with 429 exactly when the window of one of its
\* own scopes, for its own client, is then above that scope's max, whatever
\* the other scopes' and the other clients' windows hold; no other step
\* changes a window.
C33_WindowsIndependent ==
    [][/\ last'.op = "request"
          => /\ \A s \in Scopes, c \in Clients :
                   IF s \in last'.counted /\ c = last'.client
                   THEN \/ windows'[s][c].totalHits = windows[s][c].totalHits + 1
                        \/ windows'[s][c].totalHits = 1
                   ELSE windows'[s][c] = windows[s][c]
             /\ last'.counted \subseteq {s \in Scopes : limiterApplies(s, last'.path)}
             /\ last'.status = 429
                <=> \E s \in last'.counted :
                       windows'[s][last'.client].totalHits > ScopeMax[s]
       /\ last'.op # "request" => windows' = windows]_vars

\* One client has used up its notes window and another client's request is
\* forwarded within that window.
C33_Witness ==
    /\ last.op = "request" /\ last.forwarded /\ last.client = "10.0.0.2"
    /\ last.counted = {"notes"}
    /\ windows["notes"]["10.0.0.1"].totalHits > notesRateLimitMaxRequests
    /\ now < windows["notes"]["10.0.0.1"].resetTime
    /\ windows["notes"]["10.0.0.2"].totalHits = 1

\* C34: a window expires.  A request counted by a scope when that scope's
\* window for the client has elapsed (or none exists) begins a new window,
\* with one hit and resetTime = now + windowMs, and is not rejected by that
\* scope, even when the old window was above max; a 429 is given only
\* within a window that has not elapsed, so a rejected client is admitted
\* again once windowMs has passed since the window began.
C34_WindowExpires ==
    [][last'.op = "request" =>
        /\ \A s \in last'.counted :
              LET old == windows[s][last'.client]
                  new == windows'[s][last'.client]
              IN  IF now >= old.resetTime
                  THEN /\ new = [totalHits |-> 1,
                                 resetTime |-> now + ScopeWindowMs[s]]
                       /\ last'.limiter # s
                  ELSE /\ new = [old EXCEPT !.totalHits = old.totalHits + 1]
                       /\ now < old.resetTime
        /\ last'.status = 429
           => /\ now < windows[last'.limiter][last'.client].resetTime
              /\ windows[last'.limiter][last'.client].totalHits
                    >= ScopeMax[last'.limiter]]_vars

\* A client whose users window was used up is forwarded again in a new
\* window, while its login window, begun earlier, has elapsed too.
C34_Witness ==
    /\ last.op = "request" /\ last.forwarded /\ last.path = P_users_7
    /\ now >= usersRateLimitWindowMs
    /\ windows["users"][last.client] =
          [totalHits |-> 1, resetTime |-> now + usersRateLimitWindowMs]
    /\ windows["login"][last.client].totalHits > loginRateLimitMaxRequests
    /\ windows["login"][last.client].resetTime <= now

-----------------------------------------------------------------------------
(* Route predicates *)

\* C35: the route predicates agree.  Every request a proxy forwards was
\* classified by the auth middleware as a users or notes route, and then
\* either carried a verified token or was exactly the login path; no path a
\* proxy mount matches is treated by the auth middleware as neither a users
\* nor a notes route.
C35_RoutePredicatesAgree ==
    /\ (last.op = "request" /\ last.forwarded)
       => /\ startsWith(last.path, P_users) \/ startsWith(last.path, P_notes)
          /\ last.verified \/ last.path = P_users_login
    /\ (last.op = "request"
           /\ (mountMatches(last.path, P_users) \/ mountMatches(last.path, P_notes)))
       => (startsWith(last.path, P_users) \/ startsWith(last.path, P_notes))

-----------------------------------------------------------------------------
(* Failures while open *)

\* C36: a failure recorded while the breaker is open (now < openUntil), which
\* is the outcome of a call that was pending when it opened, leaves the whole
\* breaker record unchanged: consecutiveFailures is not incremented, openedAt
\* does not change and openUntil is not extended.
C36_FailureWhileOpenIgnored ==
    [][\A u \in Upstreams :
          (/\ last'.op \in {"proxyRes", "proxyError"}
           /\ last'.outcome = "failure" /\ last'.target = u
           /\ now < breaker[u].openUntil)
          => /\ breaker'[u] = breaker[u]
             /\ last'.branch = "ignored_while_open"
             /\ isCircuitOpen(breaker'[u], now')]_vars

\* A call that was pending when the breaker opened fails one tick later.
C36_Witness ==
    /\ last.op \in {"proxyRes", "proxyError"}
    /\ last.outcome = "failure" /\ last.branch = "ignored_while_open"
    /\ breaker[last.target].openedAt < now
    /\ now < breaker[last.target].openUntil
    /\ breaker[last.target].consecutiveFailures = 0

\* C37: every request that reaches a limiter of its scope is counted in the
\* (scope, client) window whatever it is answered with afterwards: a request
\* answered 503 CIRCUIT_OPEN or 401 UNAUTHORIZED, or forwarded (and later
\* answered 502), has consumed one hit of every scope mounted on its path, so
\* a request arriving when the window already holds max hits is answered 429
\* even with a valid token.
C37_RejectedRequestsConsumeQuota ==
    [][last'.op = "request" =>
        /\ (last'.status \in {401, 503} \/ last'.forwarded)
           => /\ last'.counted = {s \in Scopes : limiterApplies(s, last'.path)}
              /\ \A s \in last'.counted :
                    windows'[s][last'.client] =
                       storeIncrement(windows[s][last'.client], now, ScopeWindowMs[s])
        /\ \A s \in Scopes :
              (/\ limiterApplies(s, last'.path)
               /\ s \in last'.counted
               /\ now < windows[s][last'.client].resetTime
               /\ windows[s][last'.client].totalHits >= ScopeMax[s])
              => (last'.status = 429 /\ last'.limiter = s /\ ~last'.forwarded)]_vars

\* The users window was used up by requests answered 502, 503 and 401 (the
\* breaker is open, its two failures were calls of this window, and nothing
\* is pending); the next request, with a valid token, is answered 429.
C37_Witness ==
    /\ last.op = "request" /\ last.status = 429 /\ last.limiter = "users"
    /\ last.path = P_users_7
    /\ TokenVerified(last.headers, now)
    /\ windows["users"][last.client].totalHits = usersRateLimitMaxRequests + 1
    /\ isCircuitOpen(breaker.user_service, now)
    /\ inflight = <<>>

-----------------------------------------------------------------------------
(* SpecNotes: the note routes of the notes service (noteRoutes.ts 70-200), *)
(* called by two users, an administrator and a client with a forged token. *)
(* A note is [id, userId, title, content]; each handler does one database  *)
(* operation, so it is one atomic step on the collection.                  *)

MaxNotes == 2

\* Strings mongoose.Types.ObjectId.isValid accepts; a note id is a number,
\* and 0 is an id of the URL that is not an ObjectId.
UserObjectIds == {"u1", "u2", "admin-1"}
isValidUserId(v) == v \in UserObjectIds
isValidNoteId(id) == id > 0

\* typeof req.body?.userId === 'string' ? req.body.userId : ''
stringOrEmpty(v) == IF v = NonString \/ v = Absent THEN "" ELSE v

\* GET /: the filter of Note.find (lines 84-89)
listFilter(requester, userId) ==
    IF requester.requesterRole = "admin"
    THEN IF userId # "" THEN [all |-> FALSE, userId |-> userId]
         ELSE [all |-> TRUE, userId |-> ""]
    ELSE [all |-> FALSE, userId |-> requester.requesterId]

noteFilter_anyOwner(requester, id) ==
    [id |-> id, anyOwner |-> TRUE, userId |-> requester.requesterId]

\* PATCH /:id and DELETE /:id: the filter of findOneAndUpdate /
\* findOneAndDelete (lines 152-155, 184-187)
noteFilter(requester, id) ==
    [id |-> id, anyOwner |-> requester.requesterRole = "admin",
     userId |-> requester.requesterId]

\* The notes a filter selects.
findNotes(filter) ==
    {n \in noteDocs : filter.all \/ n.userId = filter.userId}

findOne(filter) ==
    {n \in noteDocs : n.id = filter.id /\ (filter.anyOwner \/ n.userId = filter.userId)}

\* What a notes route answered.
noteEvent(op, headers, requester, status, result) ==
    [NoEvent EXCEPT !.op = op, !.service = "notes_service", !.headers = headers,
                    !.verified = requester.ok,
                    !.requesterId = IF requester.ok THEN requester.requesterId ELSE "",
                    !.requesterRole = IF requester.ok THEN requester.requesterRole ELSE "",
                    !.status = status, !.result = result]

NotesUnchanged == UNCHANGED <<scenario, now, breaker, windows, inflight, streak>>

\* router.get('/') (lines 70-95)
GetNotes(headers, userId) ==
    /\ \E requester \in {getRequester(headers)} :
       LET ev(status, result) ==
               [noteEvent("GET /", headers, requester, status, result)
                    EXCEPT !.queryUserId = userId]
       IN  IF ~requester.ok THEN last' = ev(401, {})
           ELSE IF userId # "" /\ (userId = NonString \/ ~isValidUserId(userId))
           THEN last' = ev(400, {})
           ELSE last' = ev(200, findNotes(listFilter(requester, userId)))
    /\ noteDocs' = noteDocs
    /\ NotesUnchanged

\* router.post('/') (lines 97-123)
PostNote(headers, bodyUserId, bodyTitle, bodyContent) ==
    /\ \E requester \in {getRequester(headers)} :
       LET rawUserId == stringOrEmpty(bodyUserId)
           title == trim(bodyTitle)
           content == trim(bodyContent)
           userId == IF requester.requesterRole = "admin" THEN rawUserId
                     ELSE requester.requesterId
           ev(status, result) ==
               [noteEvent("POST /", headers, requester, status, result)
                    EXCEPT !.bodyUserId = bodyUserId]
       IN  IF ~requester.ok
           THEN last' = ev(401, {}) /\ noteDocs' = noteDocs
           ELSE IF userId = "" \/ title = <<>> \/ content = <<>>
           THEN last' = ev(400, {}) /\ noteDocs' = noteDocs
           ELSE IF ~isValidUserId(userId)
           THEN last' = ev(400, {}) /\ noteDocs' = noteDocs
           ELSE /\ Cardinality(noteDocs) < MaxNotes
                /\ LET id == CHOOSE i \in 1..MaxNotes :
                                 /\ \A n \in noteDocs : n.id # i
                                 /\ \A j \in 1..(i - 1) : \E n \in noteDocs : n.id = j
                       note == [id |-> id, userId |-> userId, title |-> title,
                                content |-> content]
                   IN  /\ noteDocs' = noteDocs \cup {note}
                       /\ last' = ev(201, {note})
    /\ NotesUnchanged

\* router.patch('/:id') (lines 125-171)
PatchNote(headers, id, bodyTitle, bodyContent) ==
    /\ \E requester \in {getRequester(headers)} :
       LET title == trim(bodyTitle)
           content == trim(bodyContent)
           ev(status, result) ==
               [noteEvent("PATCH /:id", headers, requester, status, result)
                    EXCEPT !.noteId = id]
       IN  IF ~requester.ok
           THEN last' = ev(401, {}) /\ noteDocs' = noteDocs
           ELSE IF ~isValidNoteId(id)
           THEN last' = ev(400, {}) /\ noteDocs' = noteDocs
           ELSE IF title = <<>> /\ content = <<>>
           THEN last' = ev(400, {}) /\ noteDocs' = noteDocs
           ELSE LET found == findOne(noteFilter(requester, id))
                    updated == {[n EXCEPT
                                   !.title = IF title # <<>> THEN title ELSE @,
                                   !.content = IF content # <<>> THEN content ELSE @] :
                                 n \in found}
                IN  IF found = {}
                    THEN last' = ev(404, {}) /\ noteDocs' = noteDocs
                    ELSE /\ noteDocs' = (noteDocs \ found) \cup updated
                         /\ last' = ev(200, updated)
    /\ NotesUnchanged

\* router.delete('/:id') (lines 173-198)
DeleteNote(headers, id) ==
    /\ \E requester \in {getRequester(headers)} :
       LET ev(status, result) ==
               [noteEvent("DELETE /:id", headers, requester, status, result)
                    EXCEPT !.noteId = id]
       IN  IF ~requester.ok
           THEN last' = ev(401, {}) /\ noteDocs' = noteDocs
           ELSE IF ~isValidNoteId(id)
           THEN last' = ev(400, {}) /\ noteDocs' = noteDocs
           ELSE LET found == findOne(noteFilter(requester, id))
                IN  IF found = {}
                    THEN last' = ev(404, {}) /\ noteDocs' = noteDocs
                    ELSE /\ noteDocs' = noteDocs \ found
                         /\ last' = ev(200, found)
    /\ NotesUnchanged

\* The credentials: none, two users, an administrator, an administrator's
\* token signed with another key.
NotesHeaders ==
    {[NoHeaders EXCEPT !.authorization = a] :
        a \in {NoAuthorization,
               bearer(signToken(UserClaims, jwtSecret, "HS256")),
               bearer(signToken(claims("u2", "user", Absent, NoExp), jwtSecret, "HS256")),
               bearer(signToken(AdminClaims, jwtSecret, "HS256")),
               bearer(signToken(AdminClaims, "attacker-key", "HS256"))}}

BodyUserIds == {NonString, "u2", "bad"}
QueryUserIds == {"", "u2", "bad"}
Titles == {<<" ">>, <<"t">>, <<"s", " ">>}
Contents == {<<>>, <<"c">>}
NoteIdParams == 0..MaxNotes

NotesScenarios ==
    {[paths |-> {}, clients |-> {}, traffic |-> "notes",
      ticks |-> 0, pending |-> 0,
      statuses |-> {}, errors |-> {}, throws |-> {NoThrow}]}

InitNotes == scenario \in NotesScenarios /\ Start

NextNotes ==
    \/ \E headers \in NotesHeaders, userId \in QueryUserIds : GetNotes(headers, userId)
    \/ \E headers \in NotesHeaders, userId \in BodyUserIds,
          title \in Titles, content \in Contents :
             PostNote(headers, userId, title, content)
    \/ \E headers \in NotesHeaders, id \in NoteIdParams,
          title \in Titles, content \in Contents :
             PatchNote(headers, id, title, content)
    \/ \E headers \in NotesHeaders, id \in NoteIdParams : DeleteNote(headers, id)

SpecNotes == InitNotes /\ [][NextNotes]_vars

NoteOps == {"GET /", "POST /", "PATCH /:id", "DELETE /:id"}

\* C38: in the notes service a requester whose verified role is not admin
\* is given, and can update and delete, only notes whose userId is the
\* token's subject: the notes a route returns, changes or removes all have
\* that userId, every note of another user is in the collection afterwards
\* exactly as before, and a note it creates is stored with userId = the
\* subject whatever userId the body carries.  A request without a verified
\* token changes and returns nothing.
C38_NotesOwnedBySubject ==
    [][last'.op \in NoteOps =>
        LET token == last'.headers.authorization.token
            sub == token.payload.sub
        IN  /\ (last'.headers.authorization.scheme # "Bearer " \/ BadSignature(token))
               => ~last'.verified
            /\ ~last'.verified
               => (last'.status = 401 /\ noteDocs' = noteDocs /\ last'.result = {})
            /\ last'.verified
               => /\ last'.requesterId = sub
                  /\ last'.requesterRole = "admin" <=> token.payload.role = "admin"
            /\ (last'.verified /\ last'.requesterRole # "admin")
               => /\ \A n \in last'.result : n.userId = sub
                  /\ \A n \in noteDocs : n.userId # sub => n \in noteDocs'
                  /\ \A n \in noteDocs' \ noteDocs : n.userId = sub
                  /\ \A n \in noteDocs \ noteDocs' : n.userId = sub
                  /\ last'.op = "GET /" /\ last'.status = 200
                     => last'.result = {n \in noteDocs : n.userId = sub}
                  /\ last'.status = 201
                     => /\ last'.result = noteDocs' \ noteDocs
                        /\ last'.result # {}]_vars

\* User u1 creates a note with userId u2 in the body; it is stored as u1's.
C38_Witness ==
    /\ last.op = "POST /" /\ last.status = 201
    /\ last.requesterId = "u1" /\ last.requesterRole = "user"
    /\ last.bodyUserId = "u2"
    /\ last.result # {} /\ last.result \subseteq noteDocs
    /\ \A n \in last.result : n.userId = "u1"
    /\ \E n \in noteDocs : n.userId = "u2"

-----------------------------------------------------------------------------
(* The two time fields of the breaker record *)

\* C39: in every reachable state of each breaker openedAt is absent exactly
\* when openUntil is 0, and when openedAt is set openUntil is
\* openedAt + the open duration; every step changes both fields or neither.
C39_OpenFieldsPaired ==
    [][\A u \in Upstreams :
          LET b == breaker[u]
              c == breaker'[u]
          IN  /\ \A s \in {b, c} :
                    /\ s.openedAt = NoTime <=> s.openUntil = 0
                    /\ s.openedAt # NoTime
                       => s.openUntil = s.openedAt + circuitBreakerOpenMs
              /\ c.openedAt # b.openedAt <=> c.openUntil # b.openUntil]_vars

\* A failed recovery probe has reopened the breaker: both fields moved from
\* the first opening to the current time.
C39_Witness ==
    /\ last.op \in {"proxyRes", "proxyError"}
    /\ last.branch = "recovery_probe_failed"
    /\ breaker[last.target].openedAt = now
    /\ breaker[last.target].openedAt > 0
    /\ breaker[last.target].openUntil = now + circuitBreakerOpenMs

====
